---- MODULE Spec2Model ----
(***************************************************************************)
(* Concurrent HTTP file server (src/server.py, class HTTPServer).          *)
(*                                                                         *)
(* Text is modelled at character level: a Python str is a sequence of      *)
(* one-character strings, so that splitting, prefix tests, percent         *)
(* decoding and path normalisation are computed as the code computes them. *)
(* Time is counted in ticks of 1/TicksPerSecond seconds.                   *)
(***************************************************************************)
EXTENDS Integers, Sequences, FiniteSets, TLC

(***************************************************************************)
(* Bounds of the model.                                                    *)
(***************************************************************************)
\* connections that concurrent clients make
MaxConns == 2
\* connections that clients make one after the other
MaxSerialConns == 4
\* connections made one after the other when any sample request may arrive
MaxProbeConns == 2
\* connections that concurrent clients make over sockets that may fail
MaxLiveConns == 2
\* connections that concurrent clients make and close without a request
MaxRateConns == 4
\* calls of build_headers that are compared with each other
MaxFrames == 2
\* concurrent connections of the listing workload
MaxListingConns == 3
\* largest --rate-limit argument tried
MaxRateLimit == 2
\* time.time() is read in whole ticks, this many to the second
TicksPerSecond == 1

(***************************************************************************)
(* Characters and strings.                                                 *)
(***************************************************************************)
\* the printable ASCII characters, code 32 first (code 96, the grave accent,
\* is written <96>)
Ascii ==
    <<" ", "!", "\"", "#", "$", "%", "&", "'", "(", ")", "*", "+", ",", "-", ".", "/", "0", "1", "2", "3", "4", "5", "6", "7", "8", "9", ":", ";", "<", "=", ">", "?", "@", "A", "B", "C", "D", "E", "F", "G", "H", "I", "J", "K", "L", "M", "N", "O", "P", "Q", "R", "S", "T", "U", "V", "W", "X", "Y", "Z", "[", "\\", "]", "^", "_", "<96>", "a", "b", "c", "d", "e", "f", "g", "h", "i", "j", "k", "l", "m", "n", "o", "p", "q", "r", "s", "t", "u", "v", "w", "x", "y", "z", "{", "|", "}", "~">>

\* a character the table does not hold (a control or non-ASCII code point)
OtherChar == "<?>"

Ord(ch) == IF \E i \in 1..Len(Ascii) : Ascii[i] = ch
           THEN 31 + (CHOOSE i \in 1..Len(Ascii) : Ascii[i] = ch)
           ELSE 0

Chr(n) == IF n \in 32..126 THEN Ascii[n - 31]
          ELSE IF n = 9 THEN "\t"
          ELSE IF n = 10 THEN "\n"
          ELSE IF n = 13 THEN "\r"
          ELSE OtherChar

\* str.isspace for the characters of the model
Whitespace == {" ", "\t", "\n", "\r"}

Max(a, b) == IF a >= b THEN a ELSE b

Min(a, b) == IF a <= b THEN a ELSE b

\* s[i:] of Python, i counted from 1
From(s, i) == IF i > Len(s) THEN <<>> ELSE SubSeq(s, i, Len(s))

\* s.startswith(p)
startswith(s, p) == /\ Len(p) <= Len(s)
                    /\ SubSeq(s, 1, Len(p)) = p

\* s.endswith(p)
endswith(s, p) == /\ Len(p) <= Len(s)
                  /\ SubSeq(s, Len(s) - Len(p) + 1, Len(s)) = p

\* index of the first ch in s, 0 when there is none (s.find(ch) + 1)
Find(s, ch) == IF \E i \in 1..Len(s) : s[i] = ch
               THEN CHOOSE i \in 1..Len(s) : s[i] = ch /\ \A j \in 1..(i - 1) : s[j] # ch
               ELSE 0

\* index of the last ch in s, 0 when there is none (s.rfind(ch) + 1)
RFind(s, ch) == IF \E i \in 1..Len(s) : s[i] = ch
                THEN CHOOSE i \in 1..Len(s) : s[i] = ch /\ \A j \in (i + 1)..Len(s) : s[j] # ch
                ELSE 0

\* s.split(ch, 1)[0]
SplitFirst(s, ch) == IF Find(s, ch) = 0 THEN s ELSE SubSeq(s, 1, Find(s, ch) - 1)

RECURSIVE lstrip(_, _)
\* s.lstrip(chars)
lstrip(s, chars) == IF s # <<>> /\ Head(s) \in chars THEN lstrip(Tail(s), chars) ELSE s

RECURSIVE rstrip(_, _)
\* s.rstrip(chars)
rstrip(s, chars) == IF s # <<>> /\ s[Len(s)] \in chars
                    THEN rstrip(SubSeq(s, 1, Len(s) - 1), chars)
                    ELSE s

\* s.strip()
strip(s) == rstrip(lstrip(s, Whitespace), Whitespace)

\* length of the run of non-whitespace characters t starts with
word_len(t) ==
    IF \E i \in 1..Len(t) : t[i] \in Whitespace
    THEN (CHOOSE i \in 1..Len(t) :
             t[i] \in Whitespace /\ \A j \in 1..(i - 1) : t[j] \notin Whitespace) - 1
    ELSE Len(t)

RECURSIVE split_ws(_)
\* s.split() of a string with no leading whitespace
split_words(t) ==
    IF t = <<>> THEN <<>>
    ELSE <<SubSeq(t, 1, word_len(t))>> \o split_ws(From(t, word_len(t) + 1))

\* s.split(): the maximal runs of non-whitespace characters
split_ws(s) == split_words(lstrip(s, Whitespace))

RECURSIVE split(_, _)
\* s.split(ch): the pieces between the occurrences of ch, empty ones kept
split(s, ch) ==
    IF Find(s, ch) = 0 THEN <<s>>
    ELSE <<SubSeq(s, 1, Find(s, ch) - 1)>> \o split(From(s, Find(s, ch) + 1), ch)

RECURSIVE join(_, _)
\* sep.join(parts)
join(sep, parts) ==
    IF parts = <<>> THEN <<>>
    ELSE IF Len(parts) = 1 THEN parts[1]
    ELSE parts[1] \o sep \o join(sep, Tail(parts))

RECURSIVE replace(_, _, _)
\* s.replace(a, b) for single characters
replace(s, a, b) ==
    IF s = <<>> THEN <<>>
    ELSE <<IF Head(s) = a THEN b ELSE Head(s)>> \o replace(Tail(s), a, b)

RECURSIVE lower(_)
\* s.lower()
lower(s) ==
    IF s = <<>> THEN <<>>
    ELSE <<IF Ord(Head(s)) \in 65..90 THEN Chr(Ord(Head(s)) + 32) ELSE Head(s)>>
         \o lower(Tail(s))

\* lexicographic s < t by code point, the order sorted() uses on str
RECURSIVE StrLess(_, _)
StrLess(s, t) ==
    IF t = <<>> THEN FALSE
    ELSE IF s = <<>> THEN TRUE
    ELSE IF Head(s) # Head(t) THEN Ord(Head(s)) < Ord(Head(t))
    ELSE StrLess(Tail(s), Tail(t))

RECURSIVE sorted(_)
\* sorted(S) for a set of strings
sorted(S) ==
    IF S = {} THEN <<>>
    ELSE LET m == CHOOSE x \in S : \A y \in S \ {x} : StrLess(x, y)
         IN  <<m>> \o sorted(S \ {m})

HexDigits == <<"0", "1", "2", "3", "4", "5", "6", "7", "8", "9", "a", "b", "c", "d", "e", "f">>

\* value of a hexadecimal digit, -1 for any other character
HexVal(ch) == IF \E i \in 1..16 : HexDigits[i] = lower(<<ch>>)[1]
              THEN (CHOOSE i \in 1..16 : HexDigits[i] = lower(<<ch>>)[1]) - 1
              ELSE -1

\* s begins with a percent escape: % and two hexadecimal digits
is_escape(s) ==
    /\ Len(s) >= 3
    /\ Head(s) = "%"
    /\ HexVal(s[2]) >= 0
    /\ HexVal(s[3]) >= 0

\* the byte the k-th escape of a run of escapes at the start of s stands
\* for, k counted from 0; -1 where the run has ended (the end of the string
\* or an ASCII character, which is never a continuation byte)
escape_byte(s, k) ==
    IF is_escape(From(s, 3 * k + 1))
    THEN 16 * HexVal(s[3 * k + 2]) + HexVal(s[3 * k + 3])
    ELSE -1

\* bytes.decode('utf-8', errors='replace') at the start of a run of escapes
\* whose first byte b is not ASCII: the number of bytes that make the next
\* character, a well-formed sequence of 2 to 4 bytes or the longest
\* ill-formed beginning of one, which becomes one U+FFFD
utf8_consumed(s, b) ==
    IF b \notin 194..244 THEN 1
    ELSE IF escape_byte(s, 1) \notin
                (CASE b = 224 -> 160..191
                   [] b = 237 -> 128..159
                   [] b = 240 -> 144..191
                   [] b = 244 -> 128..143
                   [] OTHER -> 128..191) THEN 1
    ELSE IF b < 224 THEN 2
    ELSE IF escape_byte(s, 2) \notin 128..191 THEN 2
    ELSE IF b < 240 THEN 3
    ELSE IF escape_byte(s, 3) \notin 128..191 THEN 3
    ELSE 4

RECURSIVE unquote(_)
\* urllib.parse.unquote: %XX with two hexadecimal digits is a byte, any
\* other % stays as it is, and the bytes are decoded as UTF-8 with
\* errors='replace': an ASCII byte is its character, a sequence of bytes
\* that makes one code point, or that cannot make one, is one character
\* outside the table
unquote(s) ==
    IF s = <<>> THEN <<>>
    ELSE IF ~is_escape(s) THEN <<Head(s)>> \o unquote(Tail(s))
    ELSE IF escape_byte(s, 0) < 128
         THEN <<Chr(escape_byte(s, 0))>> \o unquote(From(s, 4))
         ELSE <<OtherChar>> \o unquote(From(s, 3 * utf8_consumed(s, escape_byte(s, 0)) + 1))

(***************************************************************************)
(* os.path on POSIX, on character sequences.                               *)
(***************************************************************************)
Slash == <<"/">>

DotDot == <<".", ".">>

\* os.path.join(a, b)
os_path_join(a, b) ==
    IF startswith(b, Slash) THEN b
    ELSE IF a = <<>> \/ endswith(a, Slash) THEN a \o b
    ELSE a \o Slash \o b

RECURSIVE norm_comps(_, _, _)
\* the loop of posixpath.normpath over the components that are left
norm_comps(comps, new_comps, initial_slashes) ==
    IF comps = <<>> THEN new_comps
    ELSE LET comp == Head(comps)
         IN  IF comp \in {<<>>, <<".">>}
             THEN norm_comps(Tail(comps), new_comps, initial_slashes)
             ELSE IF \/ comp # DotDot
                     \/ (initial_slashes = 0 /\ new_comps = <<>>)
                     \/ (new_comps # <<>> /\ new_comps[Len(new_comps)] = DotDot)
             THEN norm_comps(Tail(comps), Append(new_comps, comp), initial_slashes)
             ELSE IF new_comps # <<>>
             THEN norm_comps(Tail(comps), SubSeq(new_comps, 1, Len(new_comps) - 1),
                             initial_slashes)
             ELSE norm_comps(Tail(comps), new_comps, initial_slashes)

\* posixpath.normpath: initial_slashes, 2 for exactly two leading slashes
initial_slashes(path) ==
    IF ~startswith(path, Slash) THEN 0
    ELSE IF startswith(path, <<"/", "/">>) /\ ~startswith(path, <<"/", "/", "/">>)
    THEN 2
    ELSE 1

\* path or '.'
or_dot(path) == IF path = <<>> THEN <<".">> ELSE path

\* os.path.normpath(path)
normpath(path) ==
    or_dot(SubSeq(<<"/", "/">>, 1, initial_slashes(path))
           \o join(Slash, norm_comps(split(path, "/"), <<>>, initial_slashes(path))))

\* os.path.abspath(path), for the absolute paths the server passes to it
abspath(path) == normpath(path)

\* os.path.splitext(p): <<root, ext>>; the extension starts at the last dot
\* of the last component, unless only dots precede it there
splitext(p) ==
    LET sepIndex == RFind(p, "/")
        dotIndex == RFind(p, ".")
    IN  IF /\ dotIndex > sepIndex
           /\ \E k \in (sepIndex + 1)..(dotIndex - 1) : p[k] # "."
        THEN <<SubSeq(p, 1, dotIndex - 1), From(p, dotIndex)>>
        ELSE <<p, <<>>>>

\* the non-empty components of an absolute path
PathList(p) == SelectSeq(split(abspath(p), "/"), LAMBDA x : x # <<>>)

\* length of the longest common prefix of two component lists
CommonLen(a, b) ==
    CHOOSE i \in 0..Min(Len(a), Len(b)) :
        /\ SubSeq(a, 1, i) = SubSeq(b, 1, i)
        /\ (i < Min(Len(a), Len(b)) => a[i + 1] # b[i + 1])

RECURSIVE pardirs(_)
\* [pardir] * n
pardirs(n) == IF n <= 0 THEN <<>> ELSE <<DotDot>> \o pardirs(n - 1)

\* rel_list of posixpath.relpath, i the length of the common prefix
rel_list(start_list, path_list, i) ==
    pardirs(Len(start_list) - i) \o SubSeq(path_list, i + 1, Len(path_list))

\* relpath on the component lists
rel_of_lists(start_list, path_list) ==
    or_dot(join(Slash, rel_list(start_list, path_list, CommonLen(start_list, path_list))))

\* os.path.relpath(path, start)
relpath(path, start) == rel_of_lists(PathList(start), PathList(path))

(***************************************************************************)
(* The file system the server reads, and its configuration.  The tree has  *)
(* the served root /srv/data with its index.html and a file whose name is  *)
(* one backslash, a sibling directory whose name starts with the root's    *)
(* name, and a file far outside the root.                                  *)
(***************************************************************************)
P_srv == <<"/", "s", "r", "v">>
P_root == <<"/", "s", "r", "v", "/", "d", "a", "t", "a">>
P_a_txt == <<"/", "s", "r", "v", "/", "d", "a", "t", "a", "/", "a", ".", "t", "x", "t">>
P_index == <<"/", "s", "r", "v", "/", "d", "a", "t", "a", "/", "i", "n", "d", "e", "x", ".", "h", "t", "m", "l">>
P_backslash == <<"/", "s", "r", "v", "/", "d", "a", "t", "a", "/", "\\">>
P_bad_txt == <<"/", "s", "r", "v", "/", "d", "a", "t", "a", "/", "b", "a", "d", ".", "t", "x", "t">>
P_x_exe == <<"/", "s", "r", "v", "/", "d", "a", "t", "a", "/", "x", ".", "e", "x", "e">>
P_d_exe == <<"/", "s", "r", "v", "/", "d", "a", "t", "a", "/", "d", ".", "e", "x", "e">>
P_sub == <<"/", "s", "r", "v", "/", "d", "a", "t", "a", "/", "s", "u", "b">>
P_b_png == <<"/", "s", "r", "v", "/", "d", "a", "t", "a", "/", "s", "u", "b", "/", "b", ".", "p", "n", "g">>
P_docs == <<"/", "s", "r", "v", "/", "d", "a", "t", "a", "/", "d", "o", "c", "s">>
P_docs_a == <<"/", "s", "r", "v", "/", "d", "a", "t", "a", "/", "d", "o", "c", "s", "/", "a", ".", "h", "t", "m", "l">>
P_docs_b == <<"/", "s", "r", "v", "/", "d", "a", "t", "a", "/", "d", "o", "c", "s", "/", "b", ".", "p", "n", "g">>
P_docs_c == <<"/", "s", "r", "v", "/", "d", "a", "t", "a", "/", "d", "o", "c", "s", "/", "c">>
P_secret == <<"/", "s", "r", "v", "/", "d", "a", "t", "a", "-", "s", "e", "c", "r", "e", "t">>
P_secret_x == <<"/", "s", "r", "v", "/", "d", "a", "t", "a", "-", "s", "e", "c", "r", "e", "t", "/", "x", ".", "t", "x", "t">>
P_etc == <<"/", "e", "t", "c">>
P_passwd == <<"/", "e", "t", "c", "/", "p", "a", "s", "s", "w", "d">>

\* the directories that exist
FsDirs == {Slash, P_srv, P_root, P_d_exe, P_sub, P_docs, P_docs_c, P_secret, P_etc}

\* the regular files that exist
FsFiles ==
    {P_a_txt, P_index, P_backslash, P_bad_txt, P_x_exe, P_b_png, P_docs_a, P_docs_b, P_secret_x, P_passwd}

\* files whose bytes are not valid UTF-8
FsNotUtf8 == {P_bad_txt}

\* os.path.exists(p)
exists(p) == p \in FsDirs \cup FsFiles

\* os.path.isdir(p)
isdir(p) == p \in FsDirs

\* the directory that holds the entry p
parent(p) == IF RFind(p, "/") = 1 THEN Slash ELSE SubSeq(p, 1, RFind(p, "/") - 1)

\* os.listdir(d): the names of the entries of directory d
listdir(d) ==
    {From(p, RFind(p, "/") + 1) : p \in {q \in FsDirs \cup FsFiles : q # Slash /\ parent(q) = d}}

\* self.root_dir = os.path.abspath(root_dir)
root_dir == abspath(P_root)

\* self.mime_types
mime_types ==
    [e \in {<<".", "h", "t", "m", "l">>, <<".", "h", "t", "m">>, <<".", "p", "n", "g">>, <<".", "p", "d", "f">>, <<".", "t", "x", "t">>} |->
        CASE e = <<".", "h", "t", "m", "l">> -> <<"t", "e", "x", "t", "/", "h", "t", "m", "l">>
          [] e = <<".", "h", "t", "m">> -> <<"t", "e", "x", "t", "/", "h", "t", "m", "l">>
          [] e = <<".", "p", "n", "g">> -> <<"i", "m", "a", "g", "e", "/", "p", "n", "g">>
          [] e = <<".", "p", "d", "f">> -> <<"a", "p", "p", "l", "i", "c", "a", "t", "i", "o", "n", "/", "p", "d", "f">>
          [] e = <<".", "t", "x", "t">> -> <<"t", "e", "x", "t", "/", "p", "l", "a", "i", "n">>]

(***************************************************************************)
(* Request parsing and path resolution: HTTPServer.handle_request.         *)
(***************************************************************************)
\* request_lines[0].strip()
request_line(request_data) == strip(split(request_data, "\n")[1])

\* if '?' in path: path = path.split('?', 1)[0]
strip_query(path) == IF Find(path, "?") # 0 THEN SplitFirst(path, "?") ELSE path

\* variant: the root path is resolved as it stands
index_of_root_kept(path) == path

\* if path == '/': path = '/index.html'
index_of_root(path) ==
    IF path = Slash THEN <<"/", "i", "n", "d", "e", "x", ".", "h", "t", "m", "l">> ELSE path

\* the path after unquote and removal of the query string
decoded_path(path) == strip_query(unquote(path))

\* the path handle_request resolves, and the directory listing shows
url_path(path) == index_of_root(decoded_path(path))

\* file_path = os.path.abspath(os.path.join(self.root_dir, path.lstrip('/')))
resolve_path(path) == abspath(os_path_join(root_dir, lstrip(url_path(path), {"/"})))

\* if relative in ('.', ''): relative = ''
dot_to_empty(relative) == IF relative \in {<<".">>, <<>>} THEN <<>> ELSE relative

\* if not relative.startswith('/'): relative = '/' + relative if relative else '/'
with_leading_slash(relative) ==
    IF ~startswith(relative, Slash)
    THEN (IF relative # <<>> THEN Slash \o relative ELSE Slash)
    ELSE relative

\* if is_directory and not relative.endswith('/'): relative += '/'
with_directory_slash(relative, is_directory) ==
    IF is_directory /\ ~endswith(relative, Slash) THEN relative \o Slash ELSE relative

\* if not is_directory and relative.endswith('/'): relative = relative.rstrip('/')
without_file_slash(relative, is_directory) ==
    IF ~is_directory /\ endswith(relative, Slash) THEN rstrip(relative, {"/"}) ELSE relative

\* return relative or '/'
or_slash(relative) == IF relative = <<>> THEN Slash ELSE relative

\* HTTPServer.normalize_counter_key
normalize_counter_key(absolute_path, is_directory) ==
    or_slash(without_file_slash(
        with_directory_slash(
            with_leading_slash(
                dot_to_empty(replace(relpath(absolute_path, root_dir), "\\", "/"))),
            is_directory),
        is_directory))

\* variant: the existence test comes after the counter, in send_file
path_outcome_count_missing(file_path) ==
    IF ~startswith(file_path, root_dir) THEN "403" ELSE "count"

\* handle_request from the security check on, with the resolved file_path
path_outcome(file_path) ==
    IF ~startswith(file_path, root_dir) THEN "403"
    ELSE IF ~exists(file_path) THEN "404"
    ELSE "count"

\* handle_request from the token count on, with request_line.split()
parts_outcome(parts) ==
    IF Len(parts) # 3 THEN "400"
    ELSE IF parts[1] # <<"G", "E", "T">> THEN "405"
    ELSE path_outcome(resolve_path(parts[2]))

\* variant: a blank first line is answered like any malformed line
line_outcome_400(line) == IF line = <<>> THEN "400" ELSE parts_outcome(split_ws(line))

\* handle_request from the blank-line test on, with the stripped first line
line_outcome(line) == IF line = <<>> THEN "close" ELSE parts_outcome(split_ws(line))

\* what handle_request does with the bytes it read, up to the counter:
\* "close" (return without a response), an error status, or "count"
request_outcome(request_data) ==
    IF request_data = <<>> THEN "close" ELSE line_outcome(request_line(request_data))

\* the file_path of a request that reached the counter
request_file_path(request_data) == resolve_path(split_ws(request_line(request_data))[2])

\* send_file with ext = os.path.splitext(file_path)[1].lower()
ext_outcome(file_path, ext) ==
    IF ext \notin DOMAIN mime_types THEN "415"
    ELSE IF /\ startswith(mime_types[ext], <<"t", "e", "x", "t", "/">>)
            /\ file_path \in FsNotUtf8
    THEN "500"
    ELSE "200"

\* what send_file does with a file: 415, or a failed read, or the file's type
send_file_outcome(file_path) == ext_outcome(file_path, lower(splitext(file_path)[2]))

RECURSIVE listing_entries(_, _, _)
\* the loops over dirs and over files in send_directory_listing: the name
\* shown for each child and the counter key its count is read from
listing_entries(dir_path, names, is_directory) ==
    IF names = <<>> THEN <<>>
    ELSE <<[name |-> IF is_directory THEN Head(names) \o Slash ELSE Head(names),
            key |-> normalize_counter_key(os_path_join(dir_path, Head(names)),
                                          is_directory)]>>
         \o listing_entries(dir_path, Tail(names), is_directory)

\* variant: the files come before the directories
listing_of_files_first(dir_path, names) ==
    listing_entries(dir_path,
                    SelectSeq(names, LAMBDA n : ~isdir(os_path_join(dir_path, n))), FALSE)
    \o listing_entries(dir_path,
                       SelectSeq(names, LAMBDA n : isdir(os_path_join(dir_path, n))), TRUE)

\* the dirs and files lists of send_directory_listing, each in sorted order,
\* the directories first
listing_of(dir_path, names) ==
    listing_entries(dir_path,
                    SelectSeq(names, LAMBDA n : isdir(os_path_join(dir_path, n))), TRUE)
    \o listing_entries(dir_path,
                       SelectSeq(names, LAMBDA n : ~isdir(os_path_join(dir_path, n))), FALSE)

\* the children send_directory_listing shows for a directory
listing_children(dir_path) == listing_of(dir_path, sorted(listdir(dir_path)))

\* build_directory_html: if not url_path.endswith('/'): url_path += '/'
with_slash(shown_path) ==
    IF ~endswith(shown_path, Slash) THEN shown_path \o Slash ELSE shown_path

\* parts[:-1]
all_but_last(parts) == SubSeq(parts, 1, Len(parts) - 1)

\* if parent_path == '//': parent_path = '/'
single_slash(parent_path) == IF parent_path = Slash \o Slash THEN Slash ELSE parent_path

\* '/'.join(url_path.rstrip('/').split('/')[:-1]) + '/', '//' made '/'
parent_path_of(shown_path) ==
    single_slash(join(Slash, all_but_last(split(rstrip(shown_path, {"/"}), "/"))) \o Slash)

\* build_directory_html: the parent link, when url_path != '/'
parent_link(shown_path) == IF shown_path # Slash THEN <<parent_path_of(shown_path)>> ELSE <<>>

\* build_directory_html: the path shown, the parent links (one or none) and
\* the list items, the directories' then the files'
build_directory_html(shown_path, dir_entries, file_entries) ==
    [path |-> with_slash(shown_path),
     parent |-> parent_link(with_slash(shown_path)),
     items |-> dir_entries \o file_entries]

\* the url_path handle_request passes to send_directory_listing
request_url_path(request_data) == url_path(split_ws(request_line(request_data))[2])


(***************************************************************************)
(* The response framer.                                                    *)
(***************************************************************************)
DecimalDigits == <<"0", "1", "2", "3", "4", "5", "6", "7", "8", "9">>

RECURSIVE str_int(_)
\* str(n), and n in an f-string, for an integer n >= 0
str_int(n) ==
    IF n < 10 THEN <<DecimalDigits[n + 1]>>
    ELSE str_int(n \div 10) \o <<DecimalDigits[(n % 10) + 1]>>

\* %S of strftime: the seconds in two digits
two_digits(n) == IF n < 10 THEN <<"0">> \o str_int(n) ELSE str_int(n)

\* datetime.utcnow().strftime("%a, %d %b %Y %H:%M:%S GMT") when the clock
\* stands at tick t; tick 0 is the first instant of 1 January 1970, and the
\* clock stays within that day's first minute
strftime(t) ==
    <<"T", "h", "u", ",", " ", "0", "1", " ", "J", "a", "n", " ", "1", "9", "7", "0", " ", "0", "0", ":", "0", "0", ":">> \o two_digits(t \div TicksPerSecond) \o <<" ", "G", "M", "T">>

\* f'HTTP/1.1 {status_code} {status_text}'
status_line(status_code, status_text) ==
    <<"H", "T", "T", "P", "/", "1", ".", "1", " ">> \o str_int(status_code) \o <<" ">> \o status_text

\* f'{key}: {value}'
header_line(key, value) == key \o <<":", " ">> \o value

RECURSIVE extra_lines(_)
\* for key, value in extra_headers.items(): lines.append(f'{key}: {value}');
\* a dict is the sequence of its items in the order of insertion
extra_lines(extra_headers) ==
    IF extra_headers = <<>> THEN <<>>
    ELSE <<header_line(Head(extra_headers)[1], Head(extra_headers)[2])>>
             \o extra_lines(Tail(extra_headers))

\* variant: the extra headers are written before the fixed ones
header_lines_extra_first(status_code, status_text, content_type, content_length, extra_headers, utcnow) ==
    <<status_line(status_code, status_text)>>
        \o extra_lines(extra_headers)
        \o <<header_line(<<"D", "a", "t", "e">>, strftime(utcnow)),
             <<"S", "e", "r", "v", "e", "r", ":", " ", "C", "o", "n", "c", "u", "r", "r", "e", "n", "t", "H", "T", "T", "P", "S", "e", "r", "v", "e", "r", "/", "2", ".", "0">>,
             header_line(<<"C", "o", "n", "t", "e", "n", "t", "-", "T", "y", "p", "e">>, content_type),
             header_line(<<"C", "o", "n", "t", "e", "n", "t", "-", "L", "e", "n", "g", "t", "h">>, str_int(content_length)),
             <<"C", "o", "n", "n", "e", "c", "t", "i", "o", "n", ":", " ", "c", "l", "o", "s", "e">>>>
        \o <<<<>>, <<>>>>

\* the list lines of build_headers, the two empty strings at its end included
header_lines(status_code, status_text, content_type, content_length, extra_headers, utcnow) ==
    <<status_line(status_code, status_text),
      header_line(<<"D", "a", "t", "e">>, strftime(utcnow)),
      <<"S", "e", "r", "v", "e", "r", ":", " ", "C", "o", "n", "c", "u", "r", "r", "e", "n", "t", "H", "T", "T", "P", "S", "e", "r", "v", "e", "r", "/", "2", ".", "0">>,
      header_line(<<"C", "o", "n", "t", "e", "n", "t", "-", "T", "y", "p", "e">>, content_type),
      header_line(<<"C", "o", "n", "t", "e", "n", "t", "-", "L", "e", "n", "g", "t", "h">>, str_int(content_length)),
      <<"C", "o", "n", "n", "e", "c", "t", "i", "o", "n", ":", " ", "c", "l", "o", "s", "e">>>>
        \o extra_lines(extra_headers)
        \o <<<<>>, <<>>>>

\* build_headers: '\r\n'.join(lines); utcnow is the tick at which it reads
\* the clock
build_headers(status_code, status_text, content_type, content_length, extra_headers, utcnow) ==
    join(<<"\r", "\n">>,
         header_lines(status_code, status_text, content_type, content_length,
                      extra_headers, utcnow))

(***************************************************************************)
(* The bytes of a request, as the two servers read and decode them.        *)
(***************************************************************************)
\* a byte that no UTF-8 sequence holds (0xff); every other element of a
\* request stands for the UTF-8 bytes of one character
InvalidByte == "<ff>"

\* client_socket.recv(bufsize) when the client's bytes have all arrived
recv(client_bytes, bufsize) == SubSeq(client_bytes, 1, Min(Len(client_bytes), bufsize))

\* .decode('utf-8', errors='ignore'): the bytes that cannot be decoded are
\* left out
decode_ignore(data) == SelectSeq(data, LAMBDA b : b # InvalidByte)

\* request_data = client_socket.recv(4096).decode('utf-8', errors='ignore')
received_text(client_bytes) == decode_ignore(recv(client_bytes, 4096))

(***************************************************************************)
(* The single-threaded baseline server: src/server_single.py.              *)
(***************************************************************************)
\* client_socket.recv(1024)
single_received(client_bytes) == recv(client_bytes, 1024)

\* send_file of the baseline server
single_send_file(file_path) ==
    IF lower(splitext(file_path)[2]) \notin DOMAIN mime_types THEN "415"
    ELSE IF /\ startswith(mime_types[lower(splitext(file_path)[2])], <<"t", "e", "x", "t", "/">>)
            /\ file_path \in FsNotUtf8
    THEN "500"
    ELSE "200"

\* handle_request of the baseline server from the security check on
single_path_outcome(file_path) ==
    IF ~startswith(file_path, root_dir) THEN "403"
    ELSE IF ~exists(file_path) THEN "404"
    ELSE IF isdir(file_path) THEN "listing"
    ELSE single_send_file(file_path)

\* handle_request of the baseline server, the path it resolves: unquote,
\* path.split('?')[0] and '/index.html' for '/'
single_url_path(path) ==
    IF split(unquote(path), "?")[1] = Slash
    THEN <<"/", "i", "n", "d", "e", "x", ".", "h", "t", "m", "l">>
    ELSE split(unquote(path), "?")[1]

\* handle_request of the baseline server from the token count on
single_parts_outcome(parts) ==
    IF Len(parts) # 3 THEN "400"
    ELSE IF parts[1] # <<"G", "E", "T">> THEN "405"
    ELSE single_path_outcome(
             abspath(os_path_join(root_dir, lstrip(single_url_path(parts[2]), {"/"}))))

\* handle_request of the baseline server with the bytes its recv returned:
\* "raise" (.decode('utf-8') raises UnicodeDecodeError, which reaches the
\* accept loop), "close" (return without a response), an error status,
\* "listing" or "200"
single_handle_request(data) ==
    IF \E i \in 1..Len(data) : data[i] = InvalidByte THEN "raise"
    ELSE IF data = <<>> THEN "close"
    ELSE IF strip(split(data, "\n")[1]) = <<>> THEN "close"
    ELSE single_parts_outcome(split_ws(strip(split(data, "\n")[1])))

(***************************************************************************)
(* The requests clients send.                                              *)
(***************************************************************************)
R_file == <<"G", "E", "T", " ", "/", "a", ".", "t", "x", "t", " ", "H", "T", "T", "P", "/", "1", ".", "1", "\r", "\n", "\r", "\n">>
R_dir == <<"G", "E", "T", " ", "/", "s", "u", "b", "/", " ", "H", "T", "T", "P", "/", "1", ".", "1", "\r", "\n", "\r", "\n">>
R_missing == <<"G", "E", "T", " ", "/", "n", "o", "p", "e", " ", "H", "T", "T", "P", "/", "1", ".", "1", "\r", "\n", "\r", "\n">>
R_empty == <<>>
R_blank == <<"\r", "\n">>
R_two_tokens == <<"G", "E", "T", " ", "/", "a", ".", "t", "x", "t", "\r", "\n">>
R_four_tokens == <<"G", "E", "T", " ", "/", "a", ".", "t", "x", "t", " ", "H", "T", "T", "P", "/", "1", ".", "1", " ", "x", "\r", "\n">>
R_post == <<"P", "O", "S", "T", " ", "/", "a", ".", "t", "x", "t", " ", "H", "T", "T", "P", "/", "1", ".", "1", "\r", "\n", "\r", "\n">>
R_post_two == <<"P", "O", "S", "T", " ", "/", "a", ".", "t", "x", "t", "\r", "\n">>
R_post_escape == <<"P", "O", "S", "T", " ", "/", ".", ".", "/", ".", ".", "/", "e", "t", "c", "/", "p", "a", "s", "s", "w", "d", " ", "H", "T", "T", "P", "/", "1", ".", "1", "\r", "\n">>
R_tabs == <<"G", "E", "T", "\t", "/", "a", ".", "t", "x", "t", "\t", "H", "T", "T", "P", "/", "1", ".", "1", "\r", "\n">>
R_query == <<"G", "E", "T", " ", "/", "a", ".", "t", "x", "t", "?", "q", "=", "1", " ", "H", "T", "T", "P", "/", "1", ".", "1", "\r", "\n">>
R_sub == <<"G", "E", "T", " ", "/", "s", "u", "b", " ", "H", "T", "T", "P", "/", "1", ".", "1", "\r", "\n">>
R_png == <<"G", "E", "T", " ", "/", "s", "u", "b", "/", "b", ".", "p", "n", "g", " ", "H", "T", "T", "P", "/", "1", ".", "1", "\r", "\n">>
R_exe == <<"G", "E", "T", " ", "/", "x", ".", "e", "x", "e", " ", "H", "T", "T", "P", "/", "1", ".", "1", "\r", "\n">>
R_dir_exe == <<"G", "E", "T", " ", "/", "d", ".", "e", "x", "e", " ", "H", "T", "T", "P", "/", "1", ".", "1", "\r", "\n">>
R_bad_utf8 == <<"G", "E", "T", " ", "/", "b", "a", "d", ".", "t", "x", "t", " ", "H", "T", "T", "P", "/", "1", ".", "1", "\r", "\n">>
R_root == <<"G", "E", "T", " ", "/", " ", "H", "T", "T", "P", "/", "1", ".", "1", "\r", "\n">>
R_root_alias == <<"G", "E", "T", " ", "/", "/", " ", "H", "T", "T", "P", "/", "1", ".", "1", "\r", "\n">>
R_escape == <<"G", "E", "T", " ", "/", ".", ".", "/", ".", ".", "/", "e", "t", "c", "/", "p", "a", "s", "s", "w", "d", " ", "H", "T", "T", "P", "/", "1", ".", "1", "\r", "\n">>
R_escape_missing == <<"G", "E", "T", " ", "/", ".", ".", "/", "n", "o", "p", "e", " ", "H", "T", "T", "P", "/", "1", ".", "1", "\r", "\n">>
R_sibling == <<"G", "E", "T", " ", "/", ".", ".", "/", "d", "a", "t", "a", "-", "s", "e", "c", "r", "e", "t", "/", "x", ".", "t", "x", "t", " ", "H", "T", "T", "P", "/", "1", ".", "1", "\r", "\n">>
R_sibling_quoted == <<"G", "E", "T", " ", "/", "%", "2", "e", "%", "2", "e", "/", "d", "a", "t", "a", "-", "s", "e", "c", "r", "e", "t", "/", "x", ".", "t", "x", "t", " ", "H", "T", "T", "P", "/", "1", ".", "1", "\r", "\n">>
R_sibling_dir == <<"G", "E", "T", " ", "/", ".", ".", "/", "d", "a", "t", "a", "-", "s", "e", "c", "r", "e", "t", " ", "H", "T", "T", "P", "/", "1", ".", "1", "\r", "\n">>
R_dotdot_inside == <<"G", "E", "T", " ", "/", "s", "u", "b", "/", ".", ".", "/", "a", ".", "t", "x", "t", " ", "H", "T", "T", "P", "/", "1", ".", "1", "\r", "\n">>
R_docs == <<"G", "E", "T", " ", "/", "d", "o", "c", "s", "/", " ", "H", "T", "T", "P", "/", "1", ".", "1", "\r", "\n">>
R_docs_noslash == <<"G", "E", "T", " ", "/", "d", "o", "c", "s", " ", "H", "T", "T", "P", "/", "1", ".", "1", "\r", "\n">>
R_root_dot == <<"G", "E", "T", " ", "/", ".", " ", "H", "T", "T", "P", "/", "1", ".", "1", "\r", "\n">>
R_docs_c == <<"G", "E", "T", " ", "/", "d", "o", "c", "s", "/", "c", "/", " ", "H", "T", "T", "P", "/", "1", ".", "1", "\r", "\n">>
R_index == <<"G", "E", "T", " ", "/", "i", "n", "d", "e", "x", ".", "h", "t", "m", "l", " ", "H", "T", "T", "P", "/", "1", ".", "1", "\r", "\n">>
R_root_query == <<"G", "E", "T", " ", "/", "?", "a", "=", "1", " ", "H", "T", "T", "P", "/", "1", ".", "1", "\r", "\n">>
R_root_quoted == <<"G", "E", "T", " ", "%", "2", "F", " ", "H", "T", "T", "P", "/", "1", ".", "1", "\r", "\n">>
R_png_dot == <<"G", "E", "T", " ", "/", "s", "u", "b", "/", ".", "/", "b", ".", "p", "n", "g", " ", "H", "T", "T", "P", "/", "1", ".", "1", "\r", "\n">>
R_png_slashes == <<"G", "E", "T", " ", "/", "s", "u", "b", "/", "/", "b", ".", "p", "n", "g", " ", "H", "T", "T", "P", "/", "1", ".", "1", "\r", "\n">>
\* a path with the two-byte UTF-8 escape of one character, of no file
R_utf8_escape == <<"G", "E", "T", " ", "/", "%", "C", "3", "%", "A", "9", ".", "t", "x", "t", " ", "H", "T", "T", "P", "/", "1", ".", "1", "\r", "\n">>

R_backslash == <<"G", "E", "T", " ", "/", "%", "5", "C", " ", "H", "T", "T", "P", "/", "1", ".", "1", "\r", "\n">>

\* the bytes of a request with a byte that is not UTF-8 after the path
R_invalid_byte == <<"G", "E", "T", " ", "/", "a", ".", "t", "x", "t">> \o <<InvalidByte>> \o <<" ", "H", "T", "T", "P", "/", "1", ".", "1", "\r", "\n", "\r", "\n">>

\* the requests of the concurrent workload
WorkloadRequests == {R_png, R_dir}

\* the requests of the listing workload: a directory and its parent, the
\* file named with a backslash and the root that holds it
ListingWorkload == {R_docs_c, R_docs, R_backslash, R_root_alias}

\* every sample request
ProbeRequests ==
    {R_file, R_dir, R_missing, R_empty, R_blank, R_two_tokens, R_four_tokens, R_post,
     R_post_two, R_post_escape, R_tabs, R_query, R_sub, R_png, R_exe, R_dir_exe,
     R_bad_utf8, R_root, R_root_alias, R_escape, R_escape_missing, R_sibling,
     R_sibling_quoted, R_sibling_dir, R_dotdot_inside, R_docs, R_docs_noslash,
     R_root_dot, R_docs_c, R_index, R_root_query, R_root_quoted,
     R_png_dot, R_png_slashes, R_backslash, R_utf8_escape}

\* the client addresses, in the order in which they first connect (an
\* address is an opaque name to the server)
IPs == <<"10.0.0.1", "10.0.0.2">>

RECURSIVE Table(_, _)
\* the function that maps each element of S to F of it, computed once
Table(F(_), S) ==
    IF S = {} THEN <<>>
    ELSE LET d == CHOOSE e \in S : TRUE
         IN  (d :> F(d)) @@ Table(F, S \ {d})

\* request_outcome of each sample request
Outcome == Table(request_outcome, ProbeRequests)

\* the requests that reach the counter
Counted == {d \in ProbeRequests : Outcome[d] = "count"}

\* file_path of the requests that reach the counter
FilePath == Table(request_file_path, Counted)

\* is_directory of the requests that reach the counter
IsDirectory == Table(LAMBDA d : isdir(FilePath[d]), Counted)

\* counter_key of the requests that reach the counter
CounterKey ==
    Table(LAMBDA d : normalize_counter_key(FilePath[d], IsDirectory[d]), Counted)

\* send_file_outcome of the requests for a file
FileOutcome ==
    Table(LAMBDA d : send_file_outcome(FilePath[d]), {d \in Counted : ~IsDirectory[d]})

\* the children a listing shows, for the requests for a directory
Children ==
    Table(LAMBDA d : listing_children(FilePath[d]), {d \in Counted : IsDirectory[d]})

\* url_path of the requests for a directory
UrlPath ==
    Table(request_url_path, {d \in Counted : IsDirectory[d]})

\* the page build_directory_html makes for each request for a directory,
\* before its list items are filled in
PageHead ==
    Table(LAMBDA d : build_directory_html(UrlPath[d], <<>>, <<>>),
          {d \in Counted : IsDirectory[d]})

\* how far a send of one response gets: all of it, the header block only
\* (the send of the body raises), or nothing (the send of the headers raises)
SendReliable == {"full"}
SendAny == {"full", "headers", "none"}

\* the arguments the sample calls of build_headers are made with: a 200 and
\* the 429, two content types, two body lengths, and as extra headers none
\* or the rate headers of an admitted connection
FrameArgs ==
    [status : {<<200, <<"O", "K">>>>, <<429, <<"T", "o", "o", " ", "M", "a", "n", "y", " ", "R", "e", "q", "u", "e", "s", "t", "s">>>>},
     content_type : {<<"t", "e", "x", "t", "/", "h", "t", "m", "l">>, <<"i", "m", "a", "g", "e", "/", "p", "n", "g">>},
     content_length : {0, 251},
     extra_headers :
         {<<>>,
          <<<<<<"X", "-", "R", "a", "t", "e", "L", "i", "m", "i", "t", "-", "L", "i", "m", "i", "t">>, <<"5">>>>,
            <<<<"X", "-", "R", "a", "t", "e", "L", "i", "m", "i", "t", "-", "W", "i", "n", "d", "o", "w">>, <<"1", ".", "0", "0">>>>,
            <<<<"X", "-", "R", "a", "t", "e", "L", "i", "m", "i", "t", "-", "R", "e", "m", "a", "i", "n", "i", "n", "g">>, <<"4">>>>>>}]

(***************************************************************************)
(* State of the server.                                                    *)
(***************************************************************************)
\* connection identifiers, in the order the acceptor takes them
AllConns ==
    1..Max(Max(Max(MaxConns, MaxLiveConns), Max(MaxSerialConns, MaxProbeConns)),
           Max(MaxRateConns, MaxListingConns))

\* self.rate_window: --rate-window 1.0, the default, in ticks
rate_window == 1 * TicksPerSecond

\* the clock is read up to this tick: one tick past a full window
MaxClock == rate_window + 1

\* HTTPServer.__init__: rate_limit=5, the default
default_rate_limit == 5

VARIABLES
    use_counter_lock,   \* self.use_counter_lock: --counter-mode safe
    counter_delay,      \* self.counter_delay is not zero
    handler_delay,      \* self.handler_delay is not zero
    rate_limit,         \* self.rate_limit
    clock,              \* the last value time.time() returned, in ticks
    accepted,           \* connections the accept loop has handed to a worker
    request_counts,     \* self.request_counts: key -> count, keys as inserted
    client_windows,     \* self.client_windows: ip -> timestamps, ips as inserted
    counter_lock,       \* holder of self.counter_lock, 0 when free
    rate_lock,          \* holder of self.rate_lock, 0 when free
    pc,                 \* where each connection's worker is
    ip,                 \* client_address[0] of the connection
    now,                \* the worker's local now in check_rate_limit
    admission,          \* what check_rate_limit returned to the worker
    request_data,       \* what the worker's recv returned
    current,            \* the worker's local current in increment_counter
    entries,            \* the counts a listing has read so far
    resp,               \* the responses the worker has sent, in order
    history,            \* the steps the worker has been through, in order
    frames,             \* the header blocks build_headers has returned, in order
    client_bytes,       \* the bytes the client of the connection has sent
    admitted_log        \* per address and tick, how many checks with that
                        \* timestamp check_rate_limit has admitted so far

vars == <<use_counter_lock, counter_delay, handler_delay, rate_limit, clock, accepted, request_counts,
          client_windows, counter_lock, rate_lock, pc, ip, now, admission,
          request_data, current, entries, resp, history, frames, client_bytes,
          admitted_log>>

config_vars == <<use_counter_lock, counter_delay, handler_delay, rate_limit>>

NoAdmission == [allowed |-> FALSE, retry_after |-> 0, remaining |-> 0]

\* HTTPServer.__init__ with a rate_limit argument of limits, either counter
\* mode, and delays that are zero or not; no connection yet
Constructed(limits) ==
    /\ use_counter_lock \in BOOLEAN
    /\ counter_delay \in BOOLEAN
    /\ handler_delay \in BOOLEAN
    /\ \E arg \in limits : rate_limit = Max(1, arg)
    /\ clock = 0
    /\ accepted = 0
    /\ request_counts = <<>>
    /\ client_windows = <<>>
    /\ counter_lock = 0
    /\ rate_lock = 0
    /\ pc = [c \in AllConns |-> "new"]
    /\ ip = [c \in AllConns |-> ""]
    /\ now = [c \in AllConns |-> 0]
    /\ admission = [c \in AllConns |-> NoAdmission]
    /\ request_data = [c \in AllConns |-> <<>>]
    /\ current = [c \in AllConns |-> 0]
    /\ entries = [c \in AllConns |-> <<>>]
    /\ resp = [c \in AllConns |-> <<>>]
    /\ history = [c \in AllConns |-> <<>>]
    /\ frames = <<>>
    /\ client_bytes = [c \in AllConns |-> <<>>]
    /\ admitted_log = <<>>

\* the server started with the command line's arguments
Init == Constructed(0..MaxRateLimit)

(***************************************************************************)
(* The shared stores.                                                      *)
(***************************************************************************)
\* d.get(key, 0)
get(d, key) == IF key \in DOMAIN d THEN d[key] ELSE 0

\* d[key] = value, inserting the key when it is new
put(d, key, value) == (key :> value) @@ d

\* variant: one window for all clients
window_of_all(d, key) == IF d = <<>> THEN <<>> ELSE d[CHOOSE k \in DOMAIN d : TRUE]

\* d[key] of a defaultdict: the stored value, or the default, which it inserts
window_of(d, key) == IF key \in DOMAIN d THEN d[key] ELSE <<>>

\* variant: a timestamp exactly one window old counts as expired
expired_at_window(t, front) == t - front >= rate_window

\* now - window[0] > self.rate_window
expired(t, front) == t - front > rate_window

RECURSIVE evict(_, _)
\* while window and now - window[0] > self.rate_window: window.popleft()
evict(window, t) ==
    IF window # <<>> /\ expired(t, window[1]) THEN evict(Tail(window), t) ELSE window

\* variant: the limit is reached one request early
at_limit_early(window, limit) == Len(window) + 1 >= limit

\* variant: a window that holds exactly the limit still admits
at_limit_strict(window, limit) == Len(window) > limit

\* len(window) >= self.rate_limit
at_limit(window, limit) == Len(window) >= limit

\* variant: an admitted request is not recorded
appended_not(window, t) == window

\* variant: an admitted request is recorded twice
appended_twice(window, t) == Append(Append(window, t), t)

\* window.append(now)
appended(window, t) == Append(window, t)

\* variant: remaining is computed before the timestamp is appended
remaining_before(window, limit) == limit - (Len(window) - 1)

\* remaining = self.rate_limit - len(window), after window.append(now)
remaining_after(window, limit) == limit - Len(window)

\* variant: the timestamp of a rejected check is recorded as well
check_rate_limit_recording_rejected(window, t, limit) ==
    [window |-> appended(evict(window, t), t),
     result |-> [allowed |-> ~at_limit(evict(window, t), limit),
                 retry_after |-> 0,
                 remaining |-> Max(0, limit - Len(evict(window, t)) - 1)]]

\* the body of check_rate_limit under the lock, on one client's window:
\* the window it leaves and the tuple it returns
check_rate_limit(window, t, limit) ==
    LET kept == evict(window, t)
        retry_after == IF kept # <<>> THEN rate_window - (t - kept[1]) ELSE rate_window
    IN  IF at_limit(kept, limit)
        THEN [window |-> kept,
              result |-> [allowed |-> FALSE,
                          retry_after |-> Max(0, retry_after),
                          remaining |-> limit - Len(kept)]]
        ELSE [window |-> appended(kept, t),
              result |-> [allowed |-> TRUE,
                          retry_after |-> 0,
                          remaining |-> remaining_after(appended(kept, t), limit)]]

\* math.ceil of a duration in ticks, in whole seconds
ceil_seconds(ticks) == (ticks + TicksPerSecond - 1) \div TicksPerSecond

\* build_rate_headers(remaining) with remaining an integer
build_rate_headers(limit, remaining) ==
    ("X-RateLimit-Limit" :> limit) @@ ("X-RateLimit-Window" :> rate_window)
        @@ ("X-RateLimit-Remaining" :> Max(0, remaining))

\* variant: a rejection reports a remaining of zero
build_rate_headers_zero(limit) == build_rate_headers(limit, 0)

\* build_rate_headers(remaining=None)
build_rate_headers_none(limit) ==
    ("X-RateLimit-Limit" :> limit) @@ ("X-RateLimit-Window" :> rate_window)

\* headers['Retry-After'] = str(max(1, math.ceil(retry_after)))
with_retry_after(headers, retry_after) ==
    ("Retry-After" :> Max(1, ceil_seconds(retry_after))) @@ headers

\* one response: its status code, its extra headers, and how much of it the
\* socket took
Response(code, headers, sent) == [code |-> code, headers |-> headers, sent |-> sent]

\* variant: the counter lock is never taken
serialized_never == FALSE

\* if self.use_counter_lock, in increment_counter and get_request_count
serialized == use_counter_lock

\* the counter key of the request a worker has resolved
counter_key(c) == CounterKey[request_data[c]]

\* the extra headers handle_client passes to handle_request
rate_headers(c) == build_rate_headers(rate_limit, admission[c].remaining)

(***************************************************************************)
(* The steps of the program.  A worker's thread can be scheduled between   *)
(* any two of them; the sleeps (handler_delay, counter_delay) are steps of *)
(* their own.                                                              *)
(***************************************************************************)
\* variant: an exception that handle_client catches also ends the accept loop
accepting_until_exception ==
    \A c \in AllConns : \A i \in 1..Len(history[c]) : history[c][i] # "except"

\* variant: the accept loop handles a connection itself and accepts the next
\* one when it has finished
accepting_when_idle == \A c \in AllConns : pc[c] \in {"new", "done", "gone"}

\* HTTPServer.start: while True; a worker is a thread of its own, so nothing
\* a worker raises reaches the loop
accepting == TRUE

\* HTTPServer.start: accept() returns the next connection and the loop
\* starts a worker thread for it, which has not run yet.  An address is an
\* opaque name: a new one is the next of IPs.
Accept(c, limit) ==
    /\ accepting
    /\ accepted < limit
    /\ c = accepted + 1
    /\ pc[c] = "new"
    /\ \E i \in 1..Min(Len(IPs), Cardinality({ip[k] : k \in 1..accepted}) + 1) :
          ip' = [ip EXCEPT ![c] = IPs[i]]
    /\ accepted' = accepted + 1
    /\ pc' = [pc EXCEPT ![c] = "started"]
    /\ UNCHANGED <<config_vars, admitted_log, frames, client_bytes, clock, request_counts, client_windows, counter_lock, rate_lock,
                   now, admission, request_data, current, entries, resp, history>>

\* check_rate_limit, the worker's first statement: now = time.time().  The
\* clock is read, and it has not gone back since it was last read, by this
\* worker or by another.
ReadClock(c) ==
    /\ pc[c] = "started"
    /\ \E t \in clock..MaxClock :
          /\ clock' = t
          /\ now' = [now EXCEPT ![c] = t]
    /\ pc' = [pc EXCEPT ![c] = "rate_lock"]
    /\ UNCHANGED <<config_vars, admitted_log, frames, client_bytes, accepted, request_counts, client_windows, counter_lock, rate_lock,
                   ip, admission, request_data, current, entries, resp, history>>

\* the same step when the clients connect one after the other, each after
\* the connection before it was closed; what the closed connection received
\* is then dropped from the record
AcceptNext(c, limit) ==
    /\ accepting
    /\ accepted < limit
    /\ c = accepted + 1
    /\ pc[c] = "new"
    /\ \A k \in 1..accepted : pc[k] \in {"done", "gone"}
    /\ \E i \in 1..Min(Len(IPs), Cardinality({ip[k] : k \in 1..accepted}) + 1) :
          ip' = [ip EXCEPT ![c] = IPs[i]]
    /\ accepted' = accepted + 1
    /\ IF accepted = 0
       THEN /\ pc' = [pc EXCEPT ![c] = "started"]
            /\ UNCHANGED <<request_data, entries, resp, history, client_bytes>>
       ELSE /\ pc' = [pc EXCEPT ![c] = "started", ![accepted] = "gone"]
            /\ client_bytes' = [client_bytes EXCEPT ![accepted] = <<>>]
            /\ request_data' = [request_data EXCEPT ![accepted] = <<>>]
            /\ entries' = [entries EXCEPT ![accepted] = <<>>]
            /\ resp' = [resp EXCEPT ![accepted] = <<>>]
            /\ history' = [history EXCEPT ![accepted] = <<>>]
    /\ UNCHANGED <<config_vars, admitted_log, frames, clock, now, request_counts, client_windows, counter_lock, rate_lock,
                   admission, current>>

\* check_rate_limit: with self.rate_lock
AcquireRateLock(c) ==
    /\ pc[c] = "rate_lock"
    /\ rate_lock = 0
    /\ rate_lock' = c
    /\ pc' = [pc EXCEPT ![c] = "rate_check"]
    /\ UNCHANGED <<config_vars, admitted_log, frames, client_bytes, clock, accepted, request_counts, client_windows,
                   counter_lock, ip, now, admission, request_data, current, entries,
                   resp, history>>

\* variant: the worker keeps the rate lock when it leaves check_rate_limit
rate_lock_kept(c) == c

\* the rate lock when the with block of check_rate_limit is left, by either
\* return: free
rate_lock_released(c) == 0

\* check_rate_limit: evict, compare, append, return; the lock is released
RateCheck(c) ==
    /\ pc[c] = "rate_check"
    /\ LET r == check_rate_limit(window_of(client_windows, ip[c]), now[c], rate_limit)
       IN  /\ client_windows' = put(client_windows, ip[c], r.window)
           /\ admission' = [admission EXCEPT ![c] = r.result]
           /\ pc' = [pc EXCEPT ![c] = IF r.result.allowed THEN "recv" ELSE "reject"]
           /\ admitted_log' = IF r.result.allowed
                               THEN put(admitted_log, <<ip[c], now[c]>>,
                                        get(admitted_log, <<ip[c], now[c]>>) + 1)
                               ELSE admitted_log
    /\ rate_lock' = rate_lock_released(c)
    /\ now' = [now EXCEPT ![c] = 0]
    /\ history' = [history EXCEPT ![c] = Append(@, "admission")]
    /\ UNCHANGED <<config_vars, frames, client_bytes, clock, accepted, request_counts, counter_lock, ip,
                   request_data, current, entries, resp>>

\* variant: a rejected connection goes on to read its request
after_reject_recv == "recv"

\* where the worker of a rejected connection goes after its 429
after_reject == "done"

\* handle_client: the 429 of a rejected connection, then the socket is closed
Reject(c, sends) ==
    /\ pc[c] = "reject"
    /\ \E sent \in sends :
          resp' = [resp EXCEPT ![c] =
                      Append(@, Response(429,
                                         with_retry_after(build_rate_headers_none(rate_limit),
                                                          admission[c].retry_after),
                                         sent))]
    /\ pc' = [pc EXCEPT ![c] = after_reject]
    /\ history' = [history EXCEPT ![c] =
                      IF after_reject = "done" THEN Append(@, "close") ELSE @]
    /\ UNCHANGED <<config_vars, admitted_log, frames, client_bytes, clock, accepted, request_counts, client_windows,
                   counter_lock, rate_lock, ip, now, admission, request_data, current,
                   entries>>

\* the steps handle_request goes through with the bytes it read, before the
\* counter
steps_of(o) ==
        IF o = "close" THEN <<"read">>
        ELSE IF o = "400" THEN <<"read", "parse">>
        ELSE IF o = "405" THEN <<"read", "parse">>
        ELSE <<"read", "parse", "resolve">>

\* variant: a path that exists is served without being counted
after_resolve_serve == "serve"

\* where the worker goes when the path exists: to increment_counter
after_resolve == "count"

\* handle_request, how it ends or goes on for the outcome o of the request:
\* it returns and the socket is closed, after an error response unless
\* nothing was received, or it goes on to the counter; steps are the steps
\* the worker has been through on the way
FinishRequest(c, o, steps, sends) ==
    IF o = "count"
    THEN /\ pc' = [pc EXCEPT ![c] = after_resolve]
         /\ history' = [history EXCEPT ![c] = @ \o steps]
         /\ resp' = resp
    ELSE /\ pc' = [pc EXCEPT ![c] = "done"]
         /\ history' = [history EXCEPT ![c] = @ \o steps \o <<"close">>]
         /\ IF o = "close"
            THEN resp' = resp
            ELSE \E sent \in sends :
                    resp' = [resp EXCEPT ![c] =
                                Append(@, Response(
                                    CASE o = "400" -> 400
                                      [] o = "405" -> 405
                                      [] o = "403" -> 403
                                      [] o = "404" -> 404,
                                    rate_headers(c), sent))]

\* handle_request: recv, decode, the request line, unquote and the query
\* string; with a handler delay a GET request's worker then sleeps, without
\* one it goes straight on to the path
HandleRequest(c, requests, sends) ==
    /\ pc[c] = "recv"
    /\ \E b \in requests :
          LET d == received_text(b)
              o == Outcome[d]
          IN  /\ client_bytes' = [client_bytes EXCEPT ![c] = b]
              /\ request_data' = [request_data EXCEPT ![c] = d]
              /\ IF handler_delay /\ o \in {"403", "404", "count"}
                 THEN /\ pc' = [pc EXCEPT ![c] = "handler_sleep"]
                      /\ history' = [history EXCEPT ![c] = @ \o <<"read", "parse">>]
                      /\ resp' = resp
                 ELSE FinishRequest(c, o, steps_of(o), sends)
    /\ UNCHANGED <<config_vars, admitted_log, frames, clock, accepted, request_counts, client_windows,
                   counter_lock, rate_lock, ip, now, admission, current, entries>>

\* handle_request: time.sleep(self.handler_delay) is over; the path is
\* resolved: 403, 404, or on to the counter
HandlerSleep(c, sends) ==
    /\ pc[c] = "handler_sleep"
    /\ FinishRequest(c, Outcome[request_data[c]], <<"resolve">>, sends)
    /\ UNCHANGED <<config_vars, admitted_log, frames, client_bytes, clock, accepted, request_counts, client_windows,
                   counter_lock, rate_lock, ip, now, admission, request_data, current, entries>>

\* variant: an exception ends the worker thread with the socket left open
after_exception_open == "failed"

\* where the worker is after handle_client has caught an exception: past
\* the finally clause, the socket closed
after_exception == "done"

\* handle_request: client_socket.recv raises (the peer reset the
\* connection); the exception leaves handle_request, handle_client logs it
\* and closes the socket, and nothing is sent
RecvRaises(c) ==
    /\ pc[c] = "recv"
    /\ pc' = [pc EXCEPT ![c] = after_exception]
    /\ history' = [history EXCEPT ![c] =
                      IF after_exception = "done" THEN @ \o <<"except", "close">>
                      ELSE Append(@, "except")]
    /\ UNCHANGED <<config_vars, admitted_log, frames, client_bytes, clock, accepted, request_counts, client_windows,
                   counter_lock, rate_lock, ip, now, admission, request_data, current,
                   entries, resp>>

\* increment_counter, safe mode: with self.counter_lock
AcquireCounterLock(c) ==
    /\ pc[c] = "count"
    /\ serialized
    /\ counter_lock = 0
    /\ counter_lock' = c
    /\ pc' = [pc EXCEPT ![c] = IF counter_delay THEN "counter_sleep" ELSE "counter_add"]
    /\ UNCHANGED <<config_vars, admitted_log, frames, client_bytes, clock, accepted, request_counts, client_windows,
                   rate_lock, ip, now, admission, request_data, current, entries, resp,
                   history>>

\* increment_counter: time.sleep(self.counter_delay), in either mode
CounterSleep(c) ==
    /\ pc[c] = "counter_sleep"
    /\ pc' = [pc EXCEPT ![c] = IF serialized THEN "counter_add" ELSE "naive_write"]
    /\ UNCHANGED <<config_vars, admitted_log, frames, client_bytes, clock, accepted, request_counts, client_windows,
                   counter_lock, rate_lock, ip, now, admission, request_data, current,
                   entries, resp, history>>

\* variant: the worker calls increment_counter again
after_increment_again == "count"

\* where the worker goes when increment_counter returns: on to serving
after_increment == "serve"

\* increment_counter, safe mode: self.request_counts[key] += 1; the lock is
\* released
CounterAdd(c) ==
    /\ pc[c] = "counter_add"
    /\ request_counts' = put(request_counts, counter_key(c),
                             get(request_counts, counter_key(c)) + 1)
    /\ counter_lock' = 0
    /\ pc' = [pc EXCEPT ![c] = after_increment]
    /\ history' = [history EXCEPT ![c] = Append(@, "count")]
    /\ UNCHANGED <<config_vars, admitted_log, frames, client_bytes, clock, accepted, client_windows, rate_lock, ip, now,
                   admission, request_data, current, entries, resp>>

\* increment_counter, naive mode: current = self.request_counts[key]
NaiveRead(c) ==
    /\ pc[c] = "count"
    /\ ~serialized
    /\ current' = [current EXCEPT ![c] = get(request_counts, counter_key(c))]
    /\ request_counts' = put(request_counts, counter_key(c),
                             get(request_counts, counter_key(c)))
    /\ pc' = [pc EXCEPT ![c] = IF counter_delay THEN "counter_sleep" ELSE "naive_write"]
    /\ UNCHANGED <<config_vars, admitted_log, frames, client_bytes, clock, accepted, client_windows, counter_lock, rate_lock,
                   ip, now, admission, request_data, entries, resp, history>>

\* variant: the naive write reads the counter again
naive_value_fresh(c) == get(request_counts, counter_key(c)) + 1

\* variant: the naive write stores the value read, without adding one
naive_value_unchanged(c) == current[c]

\* the value the naive write stores
naive_value(c) == current[c] + 1

\* increment_counter, naive mode: self.request_counts[key] = current + 1
NaiveWrite(c) ==
    /\ pc[c] = "naive_write"
    /\ request_counts' = put(request_counts, counter_key(c), naive_value(c))
    /\ pc' = [pc EXCEPT ![c] = after_increment]
    /\ current' = [current EXCEPT ![c] = 0]
    /\ history' = [history EXCEPT ![c] = Append(@, "count")]
    /\ UNCHANGED <<config_vars, admitted_log, frames, client_bytes, clock, accepted, client_windows, counter_lock, rate_lock,
                   ip, now, admission, request_data, entries, resp>>

\* variant: a failed send is not answered with a 500
ok_responses_silent(headers, sent, sent2) == <<Response(200, headers, sent)>>

\* the responses send_file or send_directory_listing leaves when its 200
\* got as far as sent, and the 500 that follows a failed send as far as sent2
ok_responses(headers, sent, sent2) ==
    IF sent = "full"
    THEN <<Response(200, headers, sent)>>
    ELSE <<Response(200, headers, sent), Response(500, headers, sent2)>>

\* send_file: 415, or read the file and send it, or 500
SendFile(c, sends) ==
    /\ pc[c] = "serve"
    /\ ~IsDirectory[request_data[c]]
    /\ LET o == FileOutcome[request_data[c]]
       IN  \E sent \in sends, sent2 \in sends :
              resp' = [resp EXCEPT ![c] =
                          @ \o (CASE o = "415" -> <<Response(415, rate_headers(c), sent)>>
                                  [] o = "500" -> <<Response(500, rate_headers(c), sent)>>
                                  [] o = "200" -> ok_responses(rate_headers(c), sent, sent2))]
    /\ pc' = [pc EXCEPT ![c] = "done"]
    /\ history' = [history EXCEPT ![c] = @ \o <<"serve", "close">>]
    /\ UNCHANGED <<config_vars, admitted_log, frames, client_bytes, clock, accepted, request_counts, client_windows,
                   counter_lock, rate_lock, ip, now, admission, request_data, current,
                   entries>>

\* the children a listing of the worker's directory shows
children(c) == Children[request_data[c]]

\* variant: get_request_count reads without the lock in either mode
read_locked_never == FALSE

\* get_request_count: if self.use_counter_lock: with self.counter_lock
read_locked == serialized

\* send_directory_listing: get_request_count for the next child; in safe
\* mode it takes the counter lock for the read
ListingRead(c) ==
    /\ pc[c] = "serve"
    /\ IsDirectory[request_data[c]]
    /\ Len(entries[c]) < Len(children(c))
    /\ read_locked => counter_lock = 0
    /\ LET child == children(c)[Len(entries[c]) + 1]
       IN  entries' = [entries EXCEPT ![c] =
                          Append(@, [name |-> child.name,
                                     count |-> get(request_counts, child.key)])]
    /\ UNCHANGED <<config_vars, admitted_log, frames, client_bytes, clock, accepted, request_counts, client_windows,
                   counter_lock, rate_lock, pc, ip, now, admission, request_data,
                   current, resp, history>>

\* the page of a listing: what build_directory_html makes of the worker's
\* url_path and of the entries it has read, the directories' first
page(c) == [PageHead[request_data[c]] EXCEPT !.items = entries[c]]

\* the responses send_directory_listing leaves: the 200 whose body is the
\* page, and the 500 that follows a failed send
listing_responses(headers, body, sent, sent2) ==
    <<[code |-> 200, headers |-> headers, sent |-> sent, body |-> body]>>
        \o Tail(ok_responses(headers, sent, sent2))

\* send_directory_listing: build the page and send it
SendListing(c, sends) ==
    /\ pc[c] = "serve"
    /\ IsDirectory[request_data[c]]
    /\ Len(entries[c]) = Len(children(c))
    /\ \E sent \in sends, sent2 \in sends :
          resp' = [resp EXCEPT ![c] =
                      @ \o listing_responses(rate_headers(c), page(c), sent, sent2)]
    /\ pc' = [pc EXCEPT ![c] = "done"]
    /\ history' = [history EXCEPT ![c] = @ \o <<"serve", "close">>]
    /\ UNCHANGED <<config_vars, admitted_log, frames, client_bytes, clock, accepted, request_counts, client_windows,
                   counter_lock, rate_lock, ip, now, admission, request_data, current,
                   entries>>

\* one step of the worker of connection c
Worker(c, requests, sends) ==
    \/ ReadClock(c)
    \/ AcquireRateLock(c)
    \/ RateCheck(c)
    \/ Reject(c, sends)
    \/ HandleRequest(c, requests, sends)
    \/ HandlerSleep(c, sends)
    \/ AcquireCounterLock(c)
    \/ CounterSleep(c)
    \/ CounterAdd(c)
    \/ NaiveRead(c)
    \/ NaiveWrite(c)
    \/ SendFile(c, sends)
    \/ ListingRead(c)
    \/ SendListing(c, sends)

\* concurrent clients: MaxConns connections at any moments, a reliable
\* network
Next ==
    \/ \E c \in AllConns : Accept(c, MaxConns)
    \/ \E c \in AllConns : Worker(c, WorkloadRequests, SendReliable)

Spec == Init /\ [][Next]_vars

\* one client after the other: MaxSerialConns connections, a reliable network
NextSerial ==
    \/ \E c \in AllConns : AcceptNext(c, MaxSerialConns)
    \/ \E c \in AllConns : Worker(c, WorkloadRequests, SendReliable)

SpecSerial == Init /\ [][NextSerial]_vars

\* one client after the other, any of the sample requests, over sockets that
\* may fail in recv and in send: MaxProbeConns connections
NextProbe ==
    \/ \E c \in AllConns : AcceptNext(c, MaxProbeConns)
    \/ \E c \in AllConns : Worker(c, ProbeRequests, SendAny)
    \/ \E c \in AllConns : RecvRaises(c)

\* the server of the probes is started with --rate-limit 1, in either
\* counter mode, with or without a counter delay
InitProbe == Init /\ rate_limit = 1

SpecProbe == InitProbe /\ [][NextProbe]_vars

\* clients that ask for listings and for the children the listings show, over
\* a reliable network: MaxListingConns connections, of which the latest two
\* may be open at the same moment (a client connects once every connection
\* but the latest is closed); the record of closed connections is kept
NextListing ==
    \/ \E c \in AllConns : /\ \A k \in 1..(accepted - 1) : pc[k] = "done"
                           /\ Accept(c, MaxListingConns)
    \/ \E c \in AllConns : Worker(c, ListingWorkload, SendReliable)

\* the server of the listing workload is started with --rate-limit 2, and
\* with both delays or with neither
InitListing == Init /\ rate_limit = 2 /\ (counter_delay <=> handler_delay)

SpecListing == InitListing /\ [][NextListing]_vars

\* the requests of the failure workload: one for each way handle_request
\* ends
ExitRequests ==
    {R_empty, R_two_tokens, R_post, R_escape, R_missing, R_exe, R_file, R_bad_utf8, R_dir}

\* one step of the worker thread of connection c in the failure workload
WorkerLive(c) == Worker(c, ExitRequests, SendAny) \/ RecvRaises(c)

\* concurrent clients over sockets that may fail in recv and in send:
\* MaxLiveConns connections at any moments
NextLive ==
    \/ \E c \in AllConns : Accept(c, MaxLiveConns)
    \/ \E c \in AllConns : WorkerLive(c)

\* a step of the worker thread of connection c that needs the processor
\* only: the clock, the locks, the counters, a sleep that ends on a path to
\* the counter; no recv and no send
Scheduled(c) ==
    \/ ReadClock(c)
    \/ AcquireRateLock(c)
    \/ RateCheck(c)
    \/ (pc[c] = "handler_sleep" /\ Outcome[request_data[c]] = "count"
          /\ HandlerSleep(c, SendAny))
    \/ AcquireCounterLock(c)
    \/ CounterSleep(c)
    \/ CounterAdd(c)
    \/ NaiveRead(c)
    \/ NaiveWrite(c)
    \/ ListingRead(c)

\* every worker thread that can take such a step is scheduled in the end.
\* recv and send have no timeout: nothing makes a step that reads or writes
\* the socket happen, a client may stay silent for ever
SpecLive == Init /\ [][NextLive]_vars /\ \A c \in AllConns : WF_vars(Scheduled(c))

\* concurrent clients that connect and close without sending a request: each
\* worker goes through check_rate_limit, and then answers 429 or reads
\* nothing; MaxRateConns connections at any moments
NextRate ==
    \/ \E c \in AllConns : Accept(c, MaxRateConns)
    \/ \E c \in AllConns : ReadClock(c)
    \/ \E c \in AllConns : AcquireRateLock(c)
    \/ \E c \in AllConns : RateCheck(c)
    \/ \E c \in AllConns : Reject(c, SendReliable)
    \/ \E c \in AllConns : HandleRequest(c, {R_empty}, SendReliable)

\* the server of the rate workload is started in safe counter mode without
\* delays, with any of the rate limits: the counter and the handler delay
\* are never reached
InitRate == Init /\ use_counter_lock /\ ~counter_delay /\ ~handler_delay

SpecRate == InitRate /\ [][NextRate]_vars

\* one call of build_headers: it reads the clock for the Date line and
\* returns the header block
BuildHeaders(args) ==
    /\ Len(frames) < MaxFrames
    /\ \E t \in clock..MaxClock :
          /\ clock' = t
          /\ frames' = Append(frames,
                              [args |-> args,
                               utcnow |-> t,
                               block |-> build_headers(args.status[1], args.status[2],
                                                       args.content_type,
                                                       args.content_length,
                                                       args.extra_headers, t)])
    /\ UNCHANGED <<config_vars, admitted_log, client_bytes, accepted, request_counts, client_windows,
                   counter_lock, rate_lock, pc, ip, now, admission, request_data, current,
                   entries, resp, history>>

\* the response framer on its own: MaxFrames calls, with any of the sample
\* arguments, at any moments
NextFrame == \E args \in FrameArgs : BuildHeaders(args)

\* the server of the framer's calls is started with the default arguments
InitFrame ==
    Constructed({default_rate_limit}) /\ use_counter_lock /\ ~counter_delay /\ ~handler_delay

SpecFrame == InitFrame /\ [][NextFrame]_vars

(***************************************************************************)
(* The single-threaded baseline server, src/server_single.py, next to the  *)
(* concurrent one: a client connects to the one or to the other.           *)
(***************************************************************************)
\* the sample requests as bytes, and the one that is not UTF-8
ProbeBytes == ProbeRequests \cup {R_invalid_byte}

\* single_handle_request of what recv returns, for each of them
SingleOutcome ==
    Table(LAMBDA b : single_handle_request(single_received(b)), ProbeBytes)

\* the accept loop of the baseline server takes the next connection, after
\* handle_request has returned for the one before and its socket is closed;
\* what the closed connection received is then dropped from the record
SingleAccept(c, limit) ==
    /\ accepted < limit
    /\ c = accepted + 1
    /\ pc[c] = "new"
    /\ \A k \in 1..accepted : pc[k] \in {"done", "gone"}
    /\ accepted' = accepted + 1
    /\ IF accepted = 0
       THEN /\ pc' = [pc EXCEPT ![c] = "single_recv"]
            /\ UNCHANGED <<request_data, entries, resp, history, client_bytes>>
       ELSE /\ pc' = [pc EXCEPT ![c] = "single_recv", ![accepted] = "gone"]
            /\ client_bytes' = [client_bytes EXCEPT ![accepted] = <<>>]
            /\ request_data' = [request_data EXCEPT ![accepted] = <<>>]
            /\ entries' = [entries EXCEPT ![accepted] = <<>>]
            /\ resp' = [resp EXCEPT ![accepted] = <<>>]
            /\ history' = [history EXCEPT ![accepted] = <<>>]
    /\ UNCHANGED <<config_vars, admitted_log, frames, clock, request_counts, client_windows, counter_lock,
                   rate_lock, ip, now, admission, current>>

\* the responses the baseline server leaves: none, an error response as far
\* as sent, or a 200 as far as sent and the 500 that follows a failed send
\* as far as sent2
single_responses(o, sent, sent2) ==
    IF o \in {"raise", "close"} THEN <<>>
    ELSE IF o \in {"listing", "200"}
    THEN IF sent = "full"
         THEN <<Response(200, <<>>, sent)>>
         ELSE <<Response(200, <<>>, sent), Response(500, <<>>, sent2)>>
    ELSE <<Response(CASE o = "400" -> 400
                      [] o = "405" -> 405
                      [] o = "403" -> 403
                      [] o = "404" -> 404
                      [] o = "415" -> 415
                      [] o = "500" -> 500,
                    <<>>, sent)>>

\* the body of the baseline server's accept loop: handle_request, an
\* exception of it caught and logged, and the socket closed
SingleHandleRequest(c, requests, sends) ==
    /\ pc[c] = "single_recv"
    /\ \E b \in requests, sent \in sends, sent2 \in sends :
          /\ client_bytes' = [client_bytes EXCEPT ![c] = b]
          /\ request_data' = [request_data EXCEPT ![c] =
                                 IF SingleOutcome[b] = "raise" THEN <<>>
                                 ELSE single_received(b)]
          /\ resp' = [resp EXCEPT ![c] = single_responses(SingleOutcome[b], sent, sent2)]
          /\ history' = [history EXCEPT ![c] =
                            IF SingleOutcome[b] = "raise" THEN <<"except", "close">>
                            ELSE IF SingleOutcome[b] = "close" THEN <<"read", "close">>
                            ELSE IF SingleOutcome[b] \in {"400", "405"}
                            THEN <<"read", "parse", "close">>
                            ELSE IF SingleOutcome[b] \in {"403", "404"}
                            THEN <<"read", "parse", "resolve", "close">>
                            ELSE <<"read", "parse", "resolve", "serve", "close">>]
    /\ pc' = [pc EXCEPT ![c] = "done"]
    /\ UNCHANGED <<config_vars, admitted_log, frames, clock, accepted, request_counts, client_windows,
                   counter_lock, rate_lock, ip, now, admission, current, entries>>

\* one client after the other, each connecting to the concurrent server or
\* to the baseline server, with any of the sample requests, over sockets that
\* may fail in send: MaxProbeConns connections
NextBaseline ==
    \/ \E c \in AllConns : AcceptNext(c, MaxProbeConns)
    \/ \E c \in AllConns : Worker(c, ProbeBytes, SendAny)
    \/ \E c \in AllConns : SingleAccept(c, MaxProbeConns)
    \/ \E c \in AllConns : SingleHandleRequest(c, ProbeBytes, SendAny)

SpecBaseline == InitProbe /\ [][NextBaseline]_vars

(***************************************************************************)
(* Properties.                                                             *)
(***************************************************************************)
\* x is an element of the sequence seq
has(seq, x) == \E i \in 1..Len(seq) : seq[i] = x

\* the connections whose increment of key has completed
Increments(key) ==
    {c \in AllConns : has(history[c], "count") /\ counter_key(c) = key}

\* the counter keys of the sample requests
CounterKeys == {CounterKey[d] : d \in Counted}

\* the addresses clients connect from
Addresses == {IPs[i] : i \in 1..Len(IPs)}

\* the connections from address a that check_rate_limit has decided
Checked(a) == {c \in AllConns : ip[c] = a /\ has(history[c], "admission")}

\* the connections from address a that were admitted
Admitted(a) == {c \in Checked(a) : admission[c].allowed}

\* C1: in safe (locked) counter mode the counter of every key equals the
\* number of increments of that key that have completed, whatever the
\* number of workers, their interleaving and the counter delay; so N
\* completed increments of one key leave its counter at exactly N.
C1_SerializedCountExact ==
    use_counter_lock =>
        /\ \A key \in DOMAIN request_counts :
              request_counts[key] = Cardinality(Increments(key))
        /\ \A c \in AllConns :
              has(history[c], "count") => counter_key(c) \in DOMAIN request_counts

\* two workers have incremented the same key under the lock and the counter
\* is 2
C1_Witness ==
    /\ use_counter_lock
    /\ \A c \in 1..MaxConns : pc[c] = "done"
    /\ \E key \in CounterKeys :
          /\ Cardinality(Increments(key)) >= 2
          /\ request_counts[key] = Cardinality(Increments(key))

\* C2: in naive counter mode the read of the counter and the write of
\* value + 1 are separate steps with no lock between them: the counter lock
\* is never held, the write stores the value read earlier plus one whatever
\* the counter holds by then, and the counter never exceeds the number of
\* completed increments.  (That it can fall below that number, a lost
\* update, is the state C2_LostUpdate.)
C2_NaiveReadThenWrite ==
    [][~use_counter_lock =>
          /\ counter_lock = 0
          /\ \A c \in AllConns :
                (pc[c] = "naive_write" /\ pc'[c] = "serve") =>
                    request_counts'[counter_key(c)] = current[c] + 1
          /\ \A key \in DOMAIN request_counts' :
                request_counts'[key] <= Cardinality(Increments(key)')]_vars

\* naive mode, every worker has finished, two increments of one key have
\* completed and its counter is below their number
C2_LostUpdate ==
    /\ ~use_counter_lock
    /\ \A c \in 1..MaxConns : pc[c] = "done"
    /\ \E key \in CounterKeys :
          /\ Cardinality(Increments(key)) >= 2
          /\ request_counts[key] < Cardinality(Increments(key))

\* C3: while an address has had no more than rate_limit admission checks,
\* every one of them was admitted, in any interleaving of the workers and
\* whatever their timestamps; so the first L checks from an address with an
\* empty window are all admitted.
C3_FirstChecksAdmitted ==
    \A a \in DOMAIN client_windows :
        Cardinality(Checked(a)) <= rate_limit
            => \A c \in Checked(a) : admission[c].allowed

\* limit 2, and two connections of one address were both admitted
C3_Witness ==
    /\ rate_limit = 2
    /\ \E a \in Addresses : Cardinality(Checked(a)) = 2 /\ Cardinality(Admitted(a)) = 2

\* C4: when the window of an address holds exactly rate_limit timestamps
\* after eviction, the admission check of a connection from that address
\* rejects it, and the rejected connection is sent a 429 whose Retry-After
\* is at least 1 before it is closed.
C4_RejectAtLimit ==
    [][\A c \in AllConns :
          /\ (/\ pc[c] = "rate_check"
              /\ pc'[c] # "rate_check"
              /\ Len(evict(window_of(client_windows, ip[c]), now[c])) = rate_limit)
             => (~admission'[c].allowed /\ pc'[c] = "reject")
          /\ (pc[c] = "reject" /\ pc'[c] # "reject")
             => (/\ pc'[c] = "done"
                 /\ Len(resp'[c]) = 1
                 /\ resp'[c][1].code = 429
                 /\ resp'[c][1].headers["Retry-After"] >= 1)]_vars

\* a connection found its address's window full, was sent a 429 and closed
C4_Witness ==
    \E c \in AllConns :
        /\ pc[c] = "done"
        /\ ~admission[c].allowed
        /\ Len(client_windows[ip[c]]) = rate_limit
        /\ resp[c] # <<>>
        /\ resp[c][1].code = 429
        /\ resp[c][1].headers["Retry-After"] >= 1

\* connection k was rejected by its admission check
was_rejected(k) == pc[k] \in {"reject", "done", "gone"} /\ ~admission[k].allowed

\* connection k was admitted by its admission check
was_admitted(k) ==
    pc[k] \notin {"new", "started", "rate_lock", "rate_check"} /\ admission[k].allowed

\* the smallest timestamp a window holds
oldest(window) ==
    CHOOSE t \in {window[i] : i \in 1..Len(window)} :
        \A i \in 1..Len(window) : t <= window[i]

\* C5 as the specification states it: after an address has been rejected, a
\* connection from it whose timestamp is at least rate_window (exactly
\* rate_window included) after the oldest timestamp of its window is
\* admitted.
C5_AdmittedFromWindow ==
    [][\A c \in AllConns :
          (/\ pc[c] = "rate_check"
           /\ pc'[c] # "rate_check"
           /\ \E k \in AllConns : ip[k] = ip[c] /\ was_rejected(k)
           /\ window_of(client_windows, ip[c]) # <<>>
           /\ now[c] - oldest(window_of(client_windows, ip[c])) >= rate_window)
          => admission'[c].allowed]_vars

\* C5, amended: after an address has been rejected, a connection from it
\* whose timestamp is strictly more than rate_window after the timestamp at
\* the front of its window is admitted; one whose timestamp is exactly
\* rate_window after it evicts nothing and is rejected while the window is
\* full.
C5_AdmittedAfterWindow ==
    [][\A c \in AllConns :
          (/\ pc[c] = "rate_check"
           /\ pc'[c] # "rate_check"
           /\ \E k \in AllConns : ip[k] = ip[c] /\ was_rejected(k)
           /\ window_of(client_windows, ip[c]) # <<>>)
          => /\ now[c] - client_windows[ip[c]][1] > rate_window
                => admission'[c].allowed
             /\ (/\ now[c] - client_windows[ip[c]][1] = rate_window
                 /\ Len(client_windows[ip[c]]) = rate_limit)
                => ~admission'[c].allowed]_vars

\* limit 1: of three connections of one address the first was admitted, the
\* second rejected, and the third, more than a window later, admitted
C5_Witness ==
    /\ rate_limit = 1
    /\ \E j, k, c \in AllConns :
          /\ j < k /\ k < c
          /\ ip[j] = ip[c] /\ ip[k] = ip[c]
          /\ was_admitted(j)
          /\ was_rejected(k)
          /\ was_admitted(c)
          /\ client_windows[ip[c]] = <<clock>>
          /\ clock > rate_window

\* C6: while every timestamp read so far lies within one window of the
\* start, the connections of an address admitted so far number exactly
\* min(R, rate_limit), R being the connections of that address checked so
\* far, in every interleaving; and of those that are closed, exactly the
\* ones not admitted were answered 429.
C6_BurstAdmitsMin ==
    clock <= rate_window =>
        \A a \in DOMAIN client_windows :
            LET R == Cardinality(Checked(a))
                admitted == Cardinality(Admitted(a))
            IN  /\ admitted = Min(R, rate_limit)
                /\ R - admitted = Max(0, R - rate_limit)
                /\ \A c \in Checked(a) :
                      pc[c] = "done" =>
                          /\ resp[c] # <<>>
                          /\ (resp[c][1].code = 429) <=> ~admission[c].allowed

\* a burst of two connections of one address within one window, limit 1:
\* both are closed, one was admitted and one answered 429
C6_Witness ==
    /\ clock <= rate_window
    /\ rate_limit = 1
    /\ \E a \in Addresses :
          /\ Cardinality(Checked(a)) = 2
          /\ Cardinality(Admitted(a)) = 1
          /\ \A c \in Checked(a) : pc[c] = "done"
          /\ \E c \in Checked(a) : resp[c][1].code = 429

\* the steps of handle_request and of the counter
request_steps == {"read", "parse", "resolve", "count", "serve"}

\* C8: a connection that its admission check rejected never goes through the
\* read, parse, resolve, count or serve steps and holds no request data, and
\* no step it takes changes the counter table.
C8_RejectedNeverHandled ==
    [][\A c \in AllConns :
          (has(history'[c], "admission") /\ ~admission'[c].allowed)
          => /\ \A s \in request_steps : ~has(history'[c], s)
             /\ request_data'[c] = <<>>
             /\ pc'[c] \in {"reject", "done"}
             /\ (pc'[c] # pc[c] => request_counts' = request_counts)]_vars

\* a rejected connection has been closed with its 429, and the counter
\* table holds the count of another connection's request
C8_Witness ==
    \E c \in AllConns :
        /\ pc[c] = "done"
        /\ has(history[c], "admission")
        /\ ~admission[c].allowed
        /\ history[c] = <<"admission", "close">>
        /\ resp[c][1].code = 429
        /\ \E key \in CounterKeys : get(request_counts, key) = 1

\* the first line of a request: "blank" after an empty read or when it is
\* empty, "three" when it has three tokens, else "malformed"
line_class(d) ==
    IF d = <<>> \/ request_line(d) = <<>> THEN "blank"
    ELSE IF Len(split_ws(request_line(d))) = 3 THEN "three"
    ELSE "malformed"

LineClass == Table(line_class, ProbeRequests)

\* the sample requests whose first line has three tokens
ThreeTokenRequests == {d \in ProbeRequests : LineClass[d] = "three"}

\* the sample requests with no first line: an empty read or a blank line
BlankRequests == {d \in ProbeRequests : LineClass[d] = "blank"}

\* the sample requests whose first line is not blank and has not three tokens
MalformedRequests == {d \in ProbeRequests : LineClass[d] = "malformed"}

\* the method of a three-token request
method_of(d) == split_ws(request_line(d))[1]

\* p is the root or below it, component by component
contained(p) == p = root_dir \/ startswith(p, root_dir \o Slash)

\* a three-token request is a GET whose path resolves outside the root
escapes(d) == method_of(d) = <<"G", "E", "T">> /\ ~contained(request_file_path(d))

Escapes == Table(escapes, ThreeTokenRequests)

\* the three-token GET requests whose path resolves outside the root
EscapingRequests == {d \in ThreeTokenRequests : Escapes[d]}

\* C7 as the specification states it: an admitted GET whose path resolves to
\* a path that is not the root or below it, a sibling whose name starts with
\* the root's name included, is answered 403, and nothing is counted or read
\* for it.
C7_EscapeForbidden ==
    \A c \in AllConns :
        (pc[c] \notin {"new", "gone"} /\ request_data[c] \in EscapingRequests)
        => /\ resp[c] # <<>>
           /\ resp[c][1].code = 403
           /\ ~has(history[c], "count")
           /\ ~has(history[c], "serve")

\* the status the precedence of C9 gives a three-token request
precedence_status(d) ==
    IF method_of(d) # <<"G", "E", "T">> THEN 405
    ELSE IF ~contained(request_file_path(d)) THEN 403
    ELSE IF ~exists(request_file_path(d)) THEN 404
    ELSE IF isdir(request_file_path(d)) THEN 200
    ELSE IF lower(splitext(request_file_path(d))[2]) \notin DOMAIN mime_types THEN 415
    ELSE 200

PrecedenceStatus == Table(precedence_status, ThreeTokenRequests)

\* C9 as the specification states it: an admitted connection with a
\* three-token request line is answered 405 when the method is not GET,
\* else 403 when the path escapes the root, else 404 when it does not exist,
\* else 200 for a directory, else 415 for a file whose extension is not in
\* the MIME table, else 200.
C9_StatusPrecedence ==
    \A c \in AllConns :
        (pc[c] = "done" /\ request_data[c] \in ThreeTokenRequests)
        => /\ resp[c] # <<>>
           /\ resp[c][1].code = PrecedenceStatus[request_data[c]]

\* C10 as the specification states it: an admitted connection whose read
\* returned and whose first line has not exactly three tokens, an empty read
\* and a blank first line included, is sent a 400 before it is closed.
C10_NotThreeTokensGets400 ==
    \A c \in AllConns :
        (pc[c] = "done" /\ admission[c].allowed /\ has(history[c], "read")
            /\ request_data[c] \notin ThreeTokenRequests)
        => /\ Len(resp[c]) = 1
           /\ resp[c][1].code = 400

\* C10, amended: an admitted connection whose read returned a first line
\* that is not blank and has not exactly three tokens, tokens being
\* separated by runs of whitespace, is sent a 400, its only response, before
\* it is closed, with nothing resolved or counted; after an empty read or a
\* blank first line the connection is closed with no response at all.
C10_MalformedLine ==
    \A c \in AllConns :
        (pc[c] = "done" /\ admission[c].allowed /\ has(history[c], "read"))
        => /\ request_data[c] \in MalformedRequests
              => /\ Len(resp[c]) = 1
                 /\ resp[c][1].code = 400
                 /\ history[c] = <<"admission", "read", "parse", "close">>
           /\ request_data[c] \in BlankRequests
              => /\ resp[c] = <<>>
                 /\ history[c] = <<"admission", "read", "close">>

\* an admitted connection sent a two-token line and was answered 400
C10_Witness ==
    \E c \in AllConns :
        /\ pc[c] = "done"
        /\ admission[c].allowed
        /\ request_data[c] = R_two_tokens
        /\ request_data[c] \in MalformedRequests
        /\ Len(resp[c]) = 1
        /\ resp[c][1].code = 400

\* the request reached send_file and its file's extension is not in
\* self.mime_types
unsupported(d) == d \in DOMAIN FileOutcome /\ FileOutcome[d] = "415"

\* C11: a request for an existing file whose extension is not in the MIME
\* table is answered 415 and no step of its worker changes any counter.
C11_UnsupportedNotCounted ==
    [][\A c \in AllConns :
          (unsupported(request_data'[c]) /\ pc'[c] # pc[c]) =>
              /\ request_counts' = request_counts
              /\ pc'[c] = "done" =>
                    (Len(resp'[c]) = 1 /\ resp'[c][1].code = 415)]_vars

\* the number of completed calls of increment_counter in a worker's steps
calls(steps) == Len(SelectSeq(steps, LAMBDA s : s = "count"))

\* the request resolves to a directory or to a file of a supported type
resolves(d) == d \in DOMAIN CounterKey /\ ~unsupported(d)

\* the status code of the last response a worker sent
last_code(responses) == responses[Len(responses)].code

\* C12: a request that resolves to an existing supported file or to a
\* directory calls increment_counter for its normalized key exactly once:
\* no worker ever completes a second call, a completed call stores one more
\* than the worker read under that key and touches no other key, and when
\* the worker finishes, with a 200 or with a 500 (undecodable text file,
\* failed send), it has made exactly one call.
C12_CountedExactlyOnce ==
    [][\A c \in AllConns :
          /\ calls(history'[c]) <= 1
          /\ calls(history'[c]) > calls(history[c]) =>
                /\ request_counts'[counter_key(c)] =
                      (IF serialized THEN get(request_counts, counter_key(c))
                                     ELSE current[c]) + 1
                /\ \A key \in DOMAIN request_counts' \ {counter_key(c)} :
                      key \in DOMAIN request_counts
                          /\ request_counts'[key] = request_counts[key]
          /\ (resolves(request_data'[c]) /\ pc[c] # "done" /\ pc'[c] = "done") =>
                /\ calls(history'[c]) = 1
                /\ resp'[c] # <<>>
                /\ last_code(resp'[c]) \in {200, 500}]_vars

\* a worker whose 200 could not be sent answered 500 and has finished, and
\* it called increment_counter once
C12_Witness ==
    \E c \in AllConns :
        /\ pc[c] = "done"
        /\ resolves(request_data[c])
        /\ Len(resp[c]) = 2
        /\ resp[c][1].code = 200
        /\ resp[c][2].code = 500
        /\ calls(history[c]) = 1
        /\ request_counts[counter_key(c)] >= 1

\* the status codes the server answers with
StatusCodes == {200, 400, 403, 404, 405, 415, 429, 500}

\* C13: every response the server writes has one of its eight status codes
\* and carries X-RateLimit-Limit and X-RateLimit-Window, with the configured
\* values; the 429 of a rejection carries Retry-After and no
\* X-RateLimit-Remaining, and every other response carries
\* X-RateLimit-Remaining.
C13_RateHeadersOnEveryResponse ==
    \A c \in AllConns :
        \A i \in 1..Len(resp[c]) :
            LET r == resp[c][i]
            IN  /\ r.code \in StatusCodes
                /\ "X-RateLimit-Limit" \in DOMAIN r.headers
                /\ r.headers["X-RateLimit-Limit"] = rate_limit
                /\ "X-RateLimit-Window" \in DOMAIN r.headers
                /\ r.headers["X-RateLimit-Window"] = rate_window
                /\ IF r.code = 429
                   THEN /\ "Retry-After" \in DOMAIN r.headers
                        /\ "X-RateLimit-Remaining" \notin DOMAIN r.headers
                   ELSE "X-RateLimit-Remaining" \in DOMAIN r.headers

\* a rejected connection was sent a 429 with the limit, the window and
\* Retry-After, and without a remaining
C13_Witness ==
    \E c \in AllConns :
        /\ pc[c] = "done"
        /\ Len(resp[c]) = 1
        /\ resp[c][1].code = 429
        /\ DOMAIN resp[c][1].headers =
              {"X-RateLimit-Limit", "X-RateLimit-Window", "Retry-After"}

\* C14: a rejection's retry_after is max(0, W - (now - oldest)) with oldest
\* the smallest timestamp in the address's window and now the rejected
\* connection's timestamp, and the Retry-After of its 429 is
\* max(1, ceil(retry_after)), which lies in 1..max(1, ceil(W)).
C14_RetryAfterFromOldest ==
    [][\A c \in AllConns :
          /\ (pc[c] = "rate_check" /\ pc'[c] = "reject") =>
                admission'[c].retry_after =
                    Max(0, rate_window - (now[c] - oldest(client_windows'[ip[c]])))
          /\ (pc[c] = "reject" /\ pc'[c] # "reject") =>
                /\ last_code(resp'[c]) = 429
                /\ resp'[c][Len(resp'[c])].headers["Retry-After"] =
                      Max(1, ceil_seconds(admission[c].retry_after))
                /\ resp'[c][Len(resp'[c])].headers["Retry-After"]
                      \in 1..Max(1, ceil_seconds(rate_window))]_vars

\* C15: an admitted connection's remaining is rate_limit minus the size of
\* its address's window after its timestamp was appended; it lies in
\* 0..rate_limit - 1, every response on the connection carries it as
\* X-RateLimit-Remaining, and while nothing has been evicted the k-th
\* admitted connection of an address reports rate_limit - k.
C15_RemainingAfterAppend ==
    [][\A c \in AllConns :
          /\ (pc[c] = "rate_check" /\ pc'[c] = "recv") =>
                /\ admission'[c].remaining = rate_limit - Len(client_windows'[ip[c]])
                /\ admission'[c].remaining \in 0..(rate_limit - 1)
                /\ clock <= rate_window =>
                      admission'[c].remaining =
                          rate_limit - Cardinality(Admitted(ip[c])')
          /\ (Len(resp'[c]) > Len(resp[c]) /\ admission[c].allowed) =>
                \A i \in 1..Len(resp'[c]) :
                    resp'[c][i].headers["X-RateLimit-Remaining"] = admission[c].remaining]_vars

\* limit 2: two connections of one address were admitted within one window;
\* their 200 responses report 1 and 0 remaining, in the order of admission
C15_Witness ==
    /\ rate_limit = 2
    /\ clock <= rate_window
    /\ \E c, k \in AllConns :
          /\ c # k
          /\ ip[c] = ip[k]
          /\ pc[c] = "done" /\ pc[k] = "done"
          /\ resp[c] # <<>> /\ resp[k] # <<>>
          /\ resp[c][1].code = 200 /\ resp[k][1].code = 200
          /\ resp[c][1].headers["X-RateLimit-Remaining"] = 1
          /\ resp[k][1].headers["X-RateLimit-Remaining"] = 0
          /\ Len(client_windows[ip[c]]) = 2

\* the connections of the failure workload
LiveConns == 1..MaxLiveConns

\* the number of times a worker's steps closed its socket
closes(steps) == Len(SelectSeq(steps, LAMBDA s : s = "close"))

\* the points of handle_client from which a worker leaves it
ExitPoints == {"reject", "recv", "handler_sleep", "serve"}

\* the next step of the worker of connection c reads or writes its socket:
\* the recv, the 429, the error response after the handler delay, the file
\* or the listing once its counts are read
waits_for_client(c) ==
    \/ pc[c] \in {"recv", "reject"}
    \/ pc[c] = "handler_sleep" /\ Outcome[request_data[c]] # "count"
    \/ pc[c] = "serve" /\ (IsDirectory[request_data[c]] => Len(entries[c]) = Len(children(c)))

\* the close is a step of the connection's own worker, taken from one of its
\* exit points and together with the worker's exit (no other worker moves in
\* that step), it happens once, and a connection is closed exactly when its
\* worker has left handle_client
closed_on_exit ==
    /\ [][\A c \in AllConns :
             closes(history'[c]) > closes(history[c]) =>
                 /\ pc[c] \in ExitPoints
                 /\ pc'[c] = "done"
                 /\ closes(history'[c]) = 1
                 /\ \A k \in AllConns \ {c} :
                       pc'[k] = pc[k] /\ history'[k] = history[k]]_vars
    /\ [](\A c \in AllConns : pc[c] = "done" <=> closes(history[c]) = 1)

\* C16 as the specification states it: every accepted connection is closed
\* in the end, by its own worker, on that worker's exit and once, whichever
\* way the worker leaves: 429, empty read, error status, 200, 500 or an
\* exception.
C16_EventuallyClosed ==
    /\ closed_on_exit
    /\ \A c \in LiveConns : (pc[c] # "new") ~> (pc[c] = "done")

\* C16, amended: a connection is closed by its own worker, on that worker's
\* exit and once, whichever way the worker leaves; and every worker gets to
\* its exit or to a step that reads or writes its socket, where it stays as
\* long as the client lets the operation wait.
C16_ClosedByOwnWorker ==
    /\ closed_on_exit
    /\ \A c \in LiveConns :
          (pc[c] # "new") ~> (pc[c] = "done" \/ waits_for_client(c))

\* two connections are closed: one whose recv raised, with nothing sent,
\* and one whose 200 could not be sent and was followed by a 500
C16_Witness ==
    \E c, k \in AllConns :
        /\ pc[c] = "done" /\ pc[k] = "done"
        /\ has(history[c], "except") /\ closes(history[c]) = 1 /\ resp[c] = <<>>
        /\ closes(history[k]) = 1 /\ Len(resp[k]) = 2 /\ resp[k][2].code = 500

\* an exception was raised in the worker of connection c: by recv, by a
\* send, or by the read of a file
raised(c) ==
    \/ has(history[c], "except")
    \/ \E i \in 1..Len(resp[c]) : resp[c][i].sent # "full" \/ resp[c][i].code = 500

\* an exception raised in one worker stays in that worker: the step in
\* which it is raised changes nothing of any other worker, the worker holds
\* neither lock afterwards, and the accept loop can still accept while
\* clients remain
exception_stays ==
    /\ [][\A c \in AllConns :
             (raised(c)' /\ ~raised(c)) =>
                 \A k \in AllConns \ {c} :
                     /\ pc'[k] = pc[k]
                     /\ resp'[k] = resp[k]
                     /\ history'[k] = history[k]
                     /\ admission'[k] = admission[k]]_vars
    /\ [](\A c \in AllConns :
             raised(c) =>
                 /\ rate_lock # c
                 /\ counter_lock # c
                 /\ accepted < MaxLiveConns =>
                       ENABLED (\E k \in AllConns : Accept(k, MaxLiveConns)))

\* C17 as the specification states it: an exception raised in one worker
\* stays in that worker, and every other accepted connection still runs to
\* its end.
C17_OthersComplete ==
    /\ exception_stays
    /\ \A c \in LiveConns : \A k \in LiveConns \ {c} :
          (raised(c) /\ pc[k] # "new") ~> (pc[k] = "done")

\* C17, amended: an exception raised in one worker stays in that worker;
\* every other worker can take its next step whenever it is at the clock, a
\* free lock or the counter, and gets to its end or to a step on its own
\* socket.
C17_ExceptionContained ==
    /\ exception_stays
    /\ [](\A c \in AllConns : \A k \in AllConns \ {c} :
             (raised(c) /\ pc[k] \notin {"new", "done"} /\ ~waits_for_client(k)
                  /\ pc[k] # "rate_lock" /\ pc[k] # "count" /\ pc[k] # "serve")
                 => ENABLED Scheduled(k))
    /\ \A c \in LiveConns : \A k \in LiveConns \ {c} :
          (raised(c) /\ pc[k] # "new") ~> (pc[k] = "done" \/ waits_for_client(k))

\* recv raised in the worker of the first connection, and the second
\* connection was admitted, counted and served with 200; both locks are free
C17_Witness ==
    /\ has(history[1], "except")
    /\ pc[2] = "done"
    /\ admission[2].allowed
    /\ has(history[2], "count")
    /\ Len(resp[2]) = 1
    /\ resp[2][1].code = 200
    /\ resp[2][1].sent = "full"
    /\ rate_lock = 0
    /\ counter_lock = 0

\* the requests that are answered with a directory listing
ListingRequests == DOMAIN Children

\* the name a listing shows for the child called n of directory dir_path
shown_name(dir_path, n) == IF isdir(os_path_join(dir_path, n)) THEN n \o Slash ELSE n

\* the names a listing of each requested directory has to show
ShownNames ==
    Table(LAMBDA d : {shown_name(FilePath[d], n) : n \in listdir(FilePath[d])},
          ListingRequests)

\* the response is the 200 of a directory listing
is_listing(r) == r.code = 200 /\ "body" \in DOMAIN r

\* the list item shows a directory
shows_directory(item) == endswith(item.name, Slash)

\* the names of the list items, in the order of the page
item_names(items) == [j \in 1..Len(items) |-> items[j].name]

\* C18 as the specification states it: the entries of a listing are exactly
\* the directory's children, in the order of their names (a.html, b.png, c/
\* for the directory that holds these three).
C18_ListingInNameOrder ==
    \A c \in AllConns :
        \A i \in 1..Len(resp[c]) :
            is_listing(resp[c][i]) =>
                LET items == resp[c][i].body.items
                IN  /\ {items[j].name : j \in 1..Len(items)} = ShownNames[request_data[c]]
                    /\ \A j, k \in 1..Len(items) :
                          j < k => StrLess(items[j].name, items[k].name)

\* C18, amended: the entries of a listing are exactly the directory's
\* children, each once, the sub-directories first, in the order of their
\* names, and then the files, in the order of their names (c/, a.html,
\* b.png for the directory that holds these three).
C18_ListingDirsThenFiles ==
    \A c \in AllConns :
        \A i \in 1..Len(resp[c]) :
            is_listing(resp[c][i]) =>
                LET items == resp[c][i].body.items
                IN  /\ {items[j].name : j \in 1..Len(items)} = ShownNames[request_data[c]]
                    /\ \A j, k \in 1..Len(items) :
                          j < k =>
                              IF shows_directory(items[j]) = shows_directory(items[k])
                              THEN StrLess(items[j].name, items[k].name)
                              ELSE shows_directory(items[j])

\* the listing of the directory that holds a.html, b.png and c/ was sent,
\* with the items c/, a.html, b.png
C18_Witness ==
    \E c \in AllConns :
        /\ pc[c] = "done"
        /\ request_data[c] = R_docs
        /\ Len(resp[c]) = 1
        /\ is_listing(resp[c][1])
        /\ resp[c][1].sent = "full"
        /\ item_names(resp[c][1].body.items) =
              <<<<"c", "/">>, <<"a", ".", "h", "t", "m", "l">>, <<"b", ".", "p", "n", "g">>>>

\* C19: a directory listing has a parent-directory link if and only if the
\* directory listed is not the served root, whatever URL path led to the
\* directory.
C19_ParentLinkIffNotRoot ==
    \A c \in AllConns :
        \A i \in 1..Len(resp[c]) :
            is_listing(resp[c][i]) =>
                (resp[c][i].body.parent # <<>>) <=> (FilePath[request_data[c]] # root_dir)

\* the file system path of the child a listing of dir_path shows as name
child_path(dir_path, name) == os_path_join(dir_path, rstrip(name, {"/"}))

\* the counter keys that requests for the child shown as name in the listing
\* that request d asks for increment
child_request_keys(d, name) ==
    {CounterKey[q] : q \in {r \in Counted : FilePath[r] = child_path(FilePath[d], name)}}

\* for each request for a listing, the keys of the requests for each child
ChildRequestKeys ==
    Table(LAMBDA d : [j \in 1..Len(Children[d]) |->
                          child_request_keys(d, Children[d][j].name)],
          ListingRequests)

\* the connections whose request for the file or directory at path has been
\* counted
Completed(path) ==
    {k \in AllConns : has(history[k], "count") /\ FilePath[request_data[k]] = path}

\* C20: the count a listing shows for a child is read from the key that
\* requests for that child increment, a path from the root that ends in a
\* slash exactly for a directory; it is the value of that counter at the
\* moment of the read, which lies within the listing request, and the page
\* shows the values read; so in safe mode a read while no other request is
\* in flight gives the number of completed requests for the child.
C20_ListingShowsChildCounter ==
    [][\A c \in AllConns :
          /\ Len(entries'[c]) > Len(entries[c]) =>
                LET j == Len(entries'[c])
                    child == children(c)[j]
                IN  /\ pc[c] = "serve"
                    /\ entries'[c][j].name = child.name
                    /\ entries'[c][j].count = get(request_counts, child.key)
                    /\ startswith(child.key, Slash)
                    /\ endswith(child.key, Slash) <=> endswith(child.name, Slash)
                    /\ \A key \in ChildRequestKeys[request_data[c]][j] : key = child.key
                    /\ (use_counter_lock
                          /\ \A k \in AllConns \ {c} : pc[k] \in {"new", "done"})
                       => entries'[c][j].count =
                              Cardinality(Completed(child_path(FilePath[request_data[c]],
                                                               child.name)))
          /\ (Len(resp'[c]) > Len(resp[c]) /\ is_listing(resp'[c][Len(resp[c]) + 1])) =>
                /\ Len(entries[c]) = Len(children(c))
                /\ resp'[c][Len(resp[c]) + 1].body.items = entries[c]]_vars

\* safe mode: two requests for /docs/c/ had completed when the listing of
\* /docs/ was requested; the listing was sent and shows c/ with 2
C20_Witness ==
    /\ use_counter_lock
    /\ \E c, k1, k2 \in AllConns :
          /\ k1 # k2
          /\ pc[c] = "done" /\ pc[k1] = "done" /\ pc[k2] = "done"
          /\ request_data[k1] = R_docs_c /\ has(history[k1], "count")
          /\ request_data[k2] = R_docs_c /\ has(history[k2], "count")
          /\ request_data[c] = R_docs
          /\ Len(resp[c]) = 1
          /\ is_listing(resp[c][1])
          /\ \E j \in 1..Len(resp[c][1].body.items) :
                /\ resp[c][1].body.items[j].name = <<"c">> \o Slash
                /\ resp[c][1].body.items[j].count = 2
          /\ request_counts[counter_key(k1)] = 2

\* the read of the requested file raises: a text file that is not UTF-8
read_fails(d) == d \in DOMAIN FileOutcome /\ FileOutcome[d] = "500"

\* a send of the worker's 200 raised: its headers or its body did not go out
send_fails(c) == resp[c] # <<>> /\ resp[c][1].code = 200 /\ resp[c][1].sent # "full"

\* the number of responses with this status code the worker has tried to send
attempts(responses, code) == Len(SelectSeq(responses, LAMBDA r : r.code = code))

\* the worker of a request that resolved has left send_file or
\* send_directory_listing
served(c) == pc[c] = "done" /\ resolves(request_data[c])

\* what send_file and send_directory_listing do about an I/O failure: the
\* serving is tried once and the 500 is tried once, directly after the
\* failure, and then the socket is closed
failure_handled(c) ==
    /\ attempts(resp[c], 200) <= 1
    /\ attempts(resp[c], 500) <= 1
    /\ read_fails(request_data[c]) => (Len(resp[c]) = 1 /\ resp[c][1].code = 500)
    /\ send_fails(c) => (Len(resp[c]) = 2 /\ resp[c][2].code = 500)
    /\ (~read_fails(request_data[c]) /\ ~send_fails(c)) =>
          (Len(resp[c]) = 1 /\ resp[c][1].code = 200 /\ resp[c][1].sent = "full")
    /\ closes(history[c]) = 1
    /\ history[c][Len(history[c])] = "close"

\* C21 as the specification states it: an I/O failure while a file is read
\* or a file or listing is sent leaves a 500 response written on the
\* connection, the failed operation is not tried again, and the connection
\* is closed.
C21_FailureWrites500 ==
    \A c \in AllConns :
        served(c) =>
            /\ failure_handled(c)
            /\ (read_fails(request_data[c]) \/ send_fails(c)) =>
                  resp[c][Len(resp[c])].sent = "full"

\* C21, amended: after an I/O failure while a file is read or a file or
\* listing is sent the worker tries once to send a 500, does not try the
\* failed operation again, and closes the connection; the 500 reaches the
\* client only as far as the socket still takes it, and a failure of that
\* send is not answered by anything.
C21_FailureAttempts500 ==
    \A c \in AllConns :
        served(c) =>
            /\ failure_handled(c)
            /\ (read_fails(request_data[c]) \/ send_fails(c)) =>
                  /\ last_code(resp[c]) = 500
                  /\ resp[c][Len(resp[c])].sent \in SendAny

\* the body of a listing's 200 could not be sent; the 500 that followed was
\* sent in full and the connection is closed
C21_Witness ==
    \E c \in AllConns :
        /\ served(c)
        /\ IsDirectory[request_data[c]]
        /\ Len(resp[c]) = 2
        /\ is_listing(resp[c][1])
        /\ resp[c][1].sent = "headers"
        /\ resp[c][2].code = 500
        /\ resp[c][2].sent = "full"
        /\ history[c][Len(history[c])] = "close"

\* the request is a GET whose path, percent-decoded and with its query
\* string cut off, is exactly "/"
requests_root(d) ==
    /\ method_of(d) = <<"G", "E", "T">>
    /\ decoded_path(split_ws(request_line(d))[2]) = Slash

RequestsRoot == Table(requests_root, ThreeTokenRequests)

\* the sample requests for the path "/": "/", "/?a=1" and "%2F"
RootRequests == {d \in ThreeTokenRequests : RequestsRoot[d]}

\* C22: a GET request for the path "/" is answered with a directory listing
\* of the served root.
C22_RootIsListed ==
    \A c \in AllConns :
        (pc[c] = "done" /\ request_data[c] \in RootRequests) =>
            /\ resp[c] # <<>>
            /\ is_listing(resp[c][1])
            /\ FilePath[request_data[c]] = root_dir

\* the worker of connection c is running: started and not yet finished
in_progress(c) == pc[c] \notin {"new", "done", "gone"}

\* the worker of connection c waits for the counter lock, which another
\* worker holds
waits_for_counter_lock(c) == pc[c] = "count" /\ serialized /\ counter_lock \notin {0, c}

\* C23: the accept loop never waits for a worker: while clients remain it
\* can accept the next connection in every state, whatever the workers of
\* the connections before it are doing (running, sleeping in the counter
\* delay, waiting for a lock), and accepting changes nothing of a running
\* worker; nothing bounds the number of running workers, so all accepted
\* connections can be in progress at once.
C23_AcceptorNeverWaits ==
    /\ [](accepted < MaxConns => ENABLED (\E c \in AllConns : Accept(c, MaxConns)))
    /\ [][accepted' = accepted + 1 =>
             /\ \A k \in 1..accepted :
                   /\ pc'[k] = pc[k]
                   /\ history'[k] = history[k]
                   /\ resp'[k] = resp[k]
             /\ pc'[accepted'] # "new"
             /\ counter_lock' = counter_lock
             /\ rate_lock' = rate_lock]_vars

\* every accepted connection is in progress at once: one worker sleeps in
\* the counter delay holding the counter lock, and every other one has been
\* accepted since and waits for that lock
C23_Witness ==
    /\ accepted = MaxConns
    /\ \A c \in 1..MaxConns : in_progress(c)
    /\ \E c \in 1..MaxConns :
          /\ pc[c] = "counter_sleep"
          /\ counter_lock = c
          /\ \A k \in 1..MaxConns \ {c} : waits_for_counter_lock(k)

\* the lines of a header block as the client reads them: the text between
\* line feeds, each with its carriage return
block_lines(block) == split(block, "\n")

\* a line of a header block: the text and the carriage return that ends it
line(text) == text \o <<"\r">>

\* the header block has the fixed layout for the arguments it was built
\* with: status line, Date, Server, Content-Type, Content-Length,
\* Connection: close, the extra headers in their order, an empty line
framed_in_order(args, block) ==
    LET ls == block_lines(block)
        n == Len(args.extra_headers)
    IN  /\ Len(ls) = 6 + n + 2
        /\ startswith(ls[1], <<"H", "T", "T", "P", "/", "1", ".", "1", " ">>)
        /\ endswith(ls[1], line(<<" ">> \o args.status[2]))
        /\ startswith(ls[2], <<"D", "a", "t", "e", ":", " ">>)
        /\ endswith(ls[2], line(<<" ", "G", "M", "T">>))
        /\ ls[3] = line(<<"S", "e", "r", "v", "e", "r", ":", " ", "C", "o", "n", "c", "u", "r", "r", "e", "n", "t", "H", "T", "T", "P", "S", "e", "r", "v", "e", "r", "/", "2", ".", "0">>)
        /\ ls[4] = line(<<"C", "o", "n", "t", "e", "n", "t", "-", "T", "y", "p", "e", ":", " ">> \o args.content_type)
        /\ startswith(ls[5], <<"C", "o", "n", "t", "e", "n", "t", "-", "L", "e", "n", "g", "t", "h", ":", " ">>)
        /\ ls[6] = line(<<"C", "o", "n", "n", "e", "c", "t", "i", "o", "n", ":", " ", "c", "l", "o", "s", "e">>)
        /\ \A i \in 1..n :
              ls[6 + i] = line(args.extra_headers[i][1] \o <<":", " ">>
                                   \o args.extra_headers[i][2])
        /\ ls[6 + n + 1] = line(<<>>)
        /\ ls[6 + n + 2] = <<>>

\* two header blocks are the same bytes but for their second line
same_but_date(block1, block2) ==
    LET ls1 == block_lines(block1)
        ls2 == block_lines(block2)
    IN  /\ Len(ls1) = Len(ls2)
        /\ \A k \in 1..Len(ls1) : k # 2 => ls1[k] = ls2[k]

\* C24: the header builder is deterministic: two calls with the same status
\* code, status text, content type, content length and extra headers return
\* the same bytes except for the Date line (and the same bytes altogether
\* within one second), and every block has the fixed order status line,
\* Date, Server, Content-Type, Content-Length, Connection: close, extra
\* headers, empty line.
C24_FramingDeterministic ==
    /\ \A i \in 1..Len(frames) : framed_in_order(frames[i].args, frames[i].block)
    /\ \A i, j \in 1..Len(frames) :
          frames[i].args = frames[j].args =>
              /\ same_but_date(frames[i].block, frames[j].block)
              /\ frames[i].utcnow \div TicksPerSecond = frames[j].utcnow \div TicksPerSecond
                    => frames[i].block = frames[j].block

\* build_headers was called twice with the same arguments, extra headers
\* among them, in different seconds: the two blocks differ, in the Date line
C24_Witness ==
    /\ Len(frames) >= 2
    /\ frames[1].args = frames[2].args
    /\ frames[1].args.extra_headers # <<>>
    /\ frames[1].utcnow # frames[2].utcnow
    /\ frames[1].block # frames[2].block
    /\ block_lines(frames[1].block)[2] # block_lines(frames[2].block)[2]

\* the timestamps of a window do not decrease from its front to its back
ordered(window) == \A i, j \in 1..Len(window) : i < j => window[i] <= window[j]

\* C25: in every reachable state the window of every client address is in
\* non-decreasing order of its timestamps, in any interleaving of the
\* workers, so that its front entry is the oldest one.
C25_WindowOrdered ==
    \A a \in DOMAIN client_windows :
        /\ ordered(client_windows[a])
        /\ client_windows[a] # <<>> =>
              client_windows[a][1] = oldest(client_windows[a])

\* C26: right after the eviction of an admission check with timestamp now
\* the address's window holds no timestamp older than now - W, whatever the
\* window held and in any interleaving of the workers.
C26_EvictionRemovesExpired ==
    [][\A c \in AllConns :
          (pc[c] = "rate_check" /\ pc'[c] # "rate_check") =>
              \A i \in 1..Len(client_windows'[ip[c]]) :
                  client_windows'[ip[c]][i] >= now[c] - rate_window]_vars

\* the place of a step in the order of handle_client and handle_request; an
\* exception takes the place of the step that raised it, the read
step_rank(s) ==
    CASE s = "admission" -> 1
      [] s = "read" -> 2
      [] s = "except" -> 2
      [] s = "parse" -> 3
      [] s = "resolve" -> 4
      [] s = "count" -> 5
      [] s = "serve" -> 6
      [] s = "close" -> 7

\* the steps were taken in the order of their ranks, none of them twice
in_step_order(steps) ==
    \A i, j \in 1..Len(steps) : i < j => step_rank(steps[i]) < step_rank(steps[j])

\* C27: within one connection the steps follow each other in the order
\* admission, read and parse, resolve, count, serve: the socket is read only
\* after check_rate_limit has returned and admitted the connection, and a
\* 200 is written only in a step after the one that completed the
\* increment of the request's counter, so that whenever a 200 has been
\* written its increment is already applied.
C27_StepsInOrder ==
    /\ [](\A c \in AllConns :
             /\ in_step_order(history[c])
             /\ \A i \in 1..Len(resp[c]) :
                   resp[c][i].code = 200 =>
                       /\ calls(history[c]) = 1
                       /\ get(request_counts, counter_key(c)) >= 1)
    /\ [][\A c \in AllConns :
             /\ (has(history'[c], "read") /\ ~has(history[c], "read")) =>
                   /\ has(history[c], "admission")
                   /\ admission[c].allowed
                   /\ resp[c] = <<>>
             /\ (Len(resp'[c]) > Len(resp[c]) /\ resp'[c][Len(resp[c]) + 1].code = 200) =>
                   /\ has(history[c], "count")
                   /\ get(request_counts, counter_key(c)) >= 1
                   /\ request_counts' = request_counts]_vars

\* a connection went through all the steps in order and was sent its 200 in
\* full; its counter stands at 1
C27_Witness ==
    \E c \in AllConns :
        /\ history[c] = <<"admission", "read", "parse", "resolve", "count", "serve", "close">>
        /\ Len(resp[c]) = 1
        /\ resp[c][1].code = 200
        /\ resp[c][1].sent = "full"
        /\ request_counts[counter_key(c)] = 1

\* the counter key of the root's index page
IndexKey == <<"/", "i", "n", "d", "e", "x", ".", "h", "t", "m", "l">>

\* the status a request for /index.html is answered with when sends succeed
index_status == IF Outcome[R_index] = "count" THEN 200 ELSE 404

\* C28: a request whose decoded, query-stripped path is exactly "/" is
\* handled as the request for /index.html is: it resolves to index.html in
\* the root, its first response is that of /index.html (the file's 200, not
\* a listing; 404 were the file missing), and the steps of its worker change
\* the counter of the key /index.html and of no other key, so the key "/" is
\* never incremented by it.
C28_RootIsIndex ==
    /\ [](\A c \in AllConns :
             (pc[c] = "done" /\ request_data[c] \in RootRequests) =>
                 /\ Outcome[request_data[c]] = Outcome[R_index]
                 /\ resp[c] # <<>>
                 /\ resp[c][1].code = index_status
                 /\ ~is_listing(resp[c][1])
                 /\ index_status = 200 =>
                       /\ FilePath[request_data[c]] = FilePath[R_index]
                       /\ counter_key(c) = IndexKey
                       /\ calls(history[c]) = 1
                       /\ get(request_counts, IndexKey) >= 1)
    /\ [][\A c \in AllConns :
             (request_data'[c] \in RootRequests /\ pc'[c] # pc[c]) =>
                 /\ get(request_counts', Slash) = get(request_counts, Slash)
                 /\ \A key \in DOMAIN request_counts' \ {IndexKey} :
                       get(request_counts', key) = get(request_counts, key)
                 /\ calls(history'[c]) > calls(history[c]) =>
                       get(request_counts', IndexKey) > 0]_vars

\* the request GET / was answered with the 200 of index.html; the key
\* /index.html stands at 1 and the key / was never written
C28_Witness ==
    \E c \in AllConns :
        /\ pc[c] = "done"
        /\ request_data[c] = R_root
        /\ Len(resp[c]) = 1
        /\ resp[c][1].code = 200
        /\ resp[c][1].sent = "full"
        /\ ~is_listing(resp[c][1])
        /\ get(request_counts, IndexKey) = 1
        /\ Slash \notin DOMAIN request_counts

\* the worker of connection c is inside the critical section of
\* increment_counter: in the counter delay or at the read-modify-write
in_critical_section(c) == pc[c] \in {"counter_sleep", "counter_add"}

\* C29: in safe mode at most one worker at a time is inside the critical
\* section of the counter, which the holder of the counter lock is in from
\* the counter delay to the end of the read-modify-write; the counters
\* change only in the holder's step that releases the lock, and a listing
\* reads a counter only when it can take the same lock, never while a
\* worker is inside the critical section.  In naive mode no increment and
\* no read ever takes the lock.
C29_CounterCriticalSection ==
    /\ [](use_counter_lock =>
             /\ Cardinality({c \in AllConns : in_critical_section(c)}) <= 1
             /\ \A c \in AllConns : in_critical_section(c) <=> counter_lock = c)
    /\ [](~use_counter_lock => counter_lock = 0)
    /\ [][use_counter_lock =>
             /\ request_counts' # request_counts =>
                   /\ counter_lock # 0
                   /\ pc[counter_lock] = "counter_add"
                   /\ pc'[counter_lock] = "serve"
                   /\ counter_lock' = 0
             /\ \A c \in AllConns :
                   /\ (pc[c] = "counter_sleep" /\ pc'[c] # pc[c]) =>
                         (pc'[c] = "counter_add" /\ counter_lock' = c)
                   /\ Len(entries'[c]) > Len(entries[c]) =>
                         /\ counter_lock = 0
                         /\ \A k \in AllConns : ~in_critical_section(k)]_vars

\* safe mode: one worker sleeps in the counter delay holding the lock, while
\* another, which has to read the counters for its listing, has read none
C29_Witness ==
    /\ use_counter_lock
    /\ \E c, k \in AllConns :
          /\ pc[c] = "counter_sleep"
          /\ counter_lock = c
          /\ pc[k] = "serve"
          /\ IsDirectory[request_data[k]]
          /\ entries[k] = <<>>
          /\ Len(children(k)) > 0

\* the positions of a worker inside increment_counter
CountSteps == {"count", "counter_sleep", "counter_add", "naive_write"}

\* the status codes of the requests that are refused before the counter
RefusedCodes == {400, 403, 404, 405}

\* C30: a connection that is answered 400, 405, 403 or 404, or that sends an
\* empty request, leaves every counter as it was: every step that changes
\* the counter table is a step of increment_counter by the worker of a
\* request whose path resolved to an existing file or directory, and it
\* changes the entry of that request's key only; the step that reads and
\* refuses a request changes nothing, and a refused connection has not
\* counted.
C30_RefusedLeaveCounters ==
    /\ [][request_counts' # request_counts =>
             \E c \in AllConns :
                 /\ pc[c] \in CountSteps
                 /\ pc'[c] # pc[c]
                 /\ request_data[c] \in DOMAIN FilePath
                 /\ exists(FilePath[request_data[c]])
                 /\ \A key \in DOMAIN request_counts' \ {counter_key(c)} :
                       key \in DOMAIN request_counts
                           /\ request_counts'[key] = request_counts[key]
                 /\ \A key \in DOMAIN request_counts : key \in DOMAIN request_counts']_vars
    /\ [][\A c \in AllConns :
             (pc[c] \in {"recv", "handler_sleep"} /\ pc'[c] = "done") =>
                 request_counts' = request_counts]_vars
    /\ [](\A c \in AllConns :
             (\/ \E i \in 1..Len(resp[c]) : resp[c][i].code \in RefusedCodes
              \/ pc[c] = "done" /\ has(history[c], "read") /\ request_data[c] = <<>>)
             => /\ calls(history[c]) = 0
                /\ pc[c] \notin CountSteps)

\* after a request that was counted, a connection was answered 404: the
\* table still holds the one entry, at 1
C30_Witness ==
    \E c \in AllConns :
        /\ pc[c] = "done"
        /\ Len(resp[c]) = 1
        /\ resp[c][1].code = 404
        /\ Cardinality(DOMAIN request_counts) = 1
        /\ \A key \in DOMAIN request_counts : request_counts[key] = 1

\* the status codes of the responses written on a connection, in order
codes(responses) == [i \in 1..Len(responses) |-> responses[i].code]

\* every send on the connection went through
reliable(responses) == \A i \in 1..Len(responses) : responses[i].sent = "full"

\* the status an outcome of the model stands for
code_of(o) ==
    CASE o = "400" -> 400 [] o = "405" -> 405 [] o = "403" -> 403 [] o = "404" -> 404
      [] o = "415" -> 415 [] o = "500" -> 500 [] o = "200" -> 200

\* the status codes the concurrent server writes for the text it decoded,
\* on an admitted connection whose sends go through
concurrent_codes(d) ==
    IF Outcome[d] = "close" THEN <<>>
    ELSE IF Outcome[d] # "count" THEN <<code_of(Outcome[d])>>
    ELSE IF IsDirectory[d] THEN <<200>>
    ELSE <<code_of(FileOutcome[d])>>

\* the status codes the concurrent server writes for a request's bytes
ConcurrentCodes == Table(LAMBDA b : concurrent_codes(received_text(b)), ProbeBytes)

\* the connection was handled by the baseline server, which has no
\* admission step
by_baseline(c) == pc[c] = "done" /\ ~has(history[c], "admission")

\* the connection was admitted and handled by the concurrent server
by_concurrent(c) == pc[c] = "done" /\ has(history[c], "admission") /\ admission[c].allowed

\* C31: for every request, the baseline server writes the same status codes
\* as the concurrent server writes on an admitted connection (when the sends
\* go through, each server writes what ConcurrentCodes holds for the
\* request's bytes); the baseline server never writes a 429, and its steps
\* leave the counters and the rate windows alone.
C31_BaselineSameStatus ==
    /\ [](\A c \in AllConns :
             ((by_baseline(c) \/ by_concurrent(c)) /\ reliable(resp[c]))
                 => codes(resp[c]) = ConcurrentCodes[client_bytes[c]])
    /\ [](\A c \in AllConns : by_baseline(c) => attempts(resp[c], 429) = 0)
    /\ [][\A c \in AllConns :
             pc[c] = "single_recv" =>
                 /\ request_counts' = request_counts
                 /\ client_windows' = client_windows]_vars

RECURSIVE admitted_within(_, _, _)
\* how many checks of address a with a timestamp in [t, u] were admitted
admitted_within(a, t, u) ==
    IF t > u THEN 0 ELSE get(admitted_log, <<a, t>>) + admitted_within(a, t + 1, u)

\* C32: for every address and every interval of length W, at most L
\* requests of the address with their timestamp in the interval have been
\* admitted, whatever the order in which the workers take rate_lock.
C32_WindowBound ==
    \A a \in Addresses : \A t \in 0..MaxClock :
        admitted_within(a, t, t + rate_window) <= rate_limit

\* C33: a check is rejected only if at least L checks of the same address
\* with a timestamp in [now - W, now] were admitted before it, whatever the
\* order in which the workers take rate_lock.
C33_NoSpuriousRejection ==
    [][\A c \in AllConns :
          (pc[c] = "rate_check" /\ pc'[c] = "reject")
              => admitted_within(ip[c], now[c] - rate_window, now[c]) >= rate_limit]_vars

\* C34: no client's window ever holds more than L timestamps, whatever the
\* checks and the order in which their workers run.
C34_WindowAtMostLimit ==
    \A a \in DOMAIN client_windows : Len(client_windows[a]) <= rate_limit

\* a window is full, and a check of its address has been rejected since
C34_Witness ==
    \E c \in AllConns :
        /\ was_rejected(c)
        /\ ip[c] \in DOMAIN client_windows
        /\ Len(client_windows[ip[c]]) = rate_limit

\* how many times the timestamp t stands in a window
occurrences(window, t) == Len(SelectSeq(window, LAMBDA x : x = t))

\* C35: a check of address a changes no other address's window; a window
\* holds only timestamps of admitted checks of its own address; and a check
\* is rejected only when its own address has L admitted checks, so the first
\* L checks of an address are admitted whatever other addresses have done.
C35_PerClient ==
    /\ [][\A c \in AllConns :
             (pc[c] = "rate_check" /\ pc'[c] # pc[c]) =>
                 /\ \A b \in DOMAIN client_windows : b \in DOMAIN client_windows'
                 /\ \A b \in DOMAIN client_windows' \ {ip[c]} :
                       b \in DOMAIN client_windows /\ client_windows'[b] = client_windows[b]
                 /\ pc'[c] = "reject" =>
                       admitted_within(ip[c], 0, MaxClock) >= rate_limit]_vars
    /\ [](\A a \in DOMAIN client_windows : \A t \in 0..MaxClock :
             occurrences(client_windows[a], t) <= get(admitted_log, <<a, t>>))

\* two addresses have each filled their own window: the second was admitted
\* while the first one's window was full
C35_Witness ==
    /\ Cardinality(DOMAIN client_windows) = 2
    /\ \A a \in DOMAIN client_windows : Len(client_windows[a]) = rate_limit
    /\ \A c \in 1..2 : was_admitted(c)

\* tail is what is left of window after some of its front entries are removed
suffix_of(tail, window) ==
    /\ Len(tail) <= Len(window)
    /\ tail = SubSeq(window, Len(window) - Len(tail) + 1, Len(window))

\* C36: a rejected check adds no timestamp: it leaves of its client's window
\* what the eviction leaves, and nothing else; an admitted check adds exactly
\* one timestamp, its own, behind what the eviction leaves; and no later step
\* of a connection, whatever the response its request ends in, changes a
\* window.
C36_RejectedNotRecorded ==
    /\ [][\A c \in AllConns :
             (pc[c] = "rate_check" /\ pc'[c] = "reject") =>
                 /\ suffix_of(client_windows'[ip[c]], window_of(client_windows, ip[c]))
                 /\ admitted_log' = admitted_log]_vars
    /\ [][\A c \in AllConns :
             (pc[c] = "rate_check" /\ pc'[c] = "recv") =>
                 /\ client_windows'[ip[c]] # <<>>
                 /\ client_windows'[ip[c]][Len(client_windows'[ip[c]])] = now[c]
                 /\ suffix_of(all_but_last(client_windows'[ip[c]]),
                              window_of(client_windows, ip[c]))]_vars
    /\ [][client_windows' # client_windows =>
             \E c \in AllConns : pc[c] = "rate_check" /\ pc'[c] # pc[c]]_vars

\* a connection that was admitted has been answered with an error status,
\* a later one was rejected, and the window holds the one timestamp
C36_Witness ==
    \E c, k \in AllConns :
        /\ pc[c] = "done"
        /\ was_admitted(c)
        /\ resp[c] # <<>>
        /\ resp[c][1].code \in {400, 404, 405, 415}
        /\ ip[k] = ip[c]
        /\ was_rejected(k)
        /\ Len(client_windows[ip[c]]) = 1

\* the keys whose entry a step writes or inserts
written_keys(before, after) ==
    {key \in DOMAIN after : key \notin DOMAIN before \/ after[key] # before[key]}

\* C37: the key a request increments is determined by the path it resolves
\* to and by whether that is a directory: every sample request that resolves
\* to the same existing target has the key the worker writes; every key
\* starts with "/"; the key of a directory ends with "/", the key of a file
\* does not; and the key of the root is "/".
C37_KeyOfCanonicalPath ==
    /\ [](\A key \in DOMAIN request_counts : startswith(key, Slash))
    /\ [][\A c \in AllConns :
             (pc[c] \in CountSteps /\ pc'[c] # pc[c]) =>
                 \A key \in written_keys(request_counts, request_counts') :
                     /\ \A d \in Counted :
                           FilePath[d] = FilePath[request_data[c]] => CounterKey[d] = key
                     /\ endswith(key, Slash) <=> IsDirectory[request_data[c]]
                     /\ FilePath[request_data[c]] = root_dir => key = Slash]_vars

\* the connections whose increment of key has read the counter and has not
\* written it yet
InFlight(key) ==
    {c \in AllConns : pc[c] \in {"counter_sleep", "naive_write"} /\ counter_key(c) = key}

\* C38: in naive counter mode, once all the increments of a key that have
\* started have completed, N >= 1 of them, the key's counter is at least 1
\* and at most N, in every interleaving of the workers; and at any moment
\* the counter is at most the number of increments of the key that have
\* started.
C38_NaiveCountBounds ==
    ~use_counter_lock =>
        \A key \in CounterKeys :
            LET N       == Cardinality(Increments(key))
                started == N + Cardinality(InFlight(key))
            IN  /\ get(request_counts, key) <= started
                /\ (N >= 1 /\ InFlight(key) = {}) =>
                       /\ key \in DOMAIN request_counts
                       /\ request_counts[key] >= 1
                       /\ request_counts[key] <= N

\* naive mode: two increments of one key have completed, none is in
\* flight, and one of them was lost: the counter is 1
C38_Witness ==
    /\ ~use_counter_lock
    /\ \E key \in CounterKeys :
          /\ Cardinality(Increments(key)) = 2
          /\ InFlight(key) = {}
          /\ request_counts[key] = 1

\* the worker of connection c waits for or is about to take a lock
requests_lock(c) == pc[c] = "rate_lock" \/ (pc[c] = "count" /\ use_counter_lock)

\* no worker holds the rate lock and the counter lock together: the rate
\* lock is held exactly inside check_rate_limit and the counter lock only
\* inside increment_counter, and a worker that has left them, by a return
\* or with an exception raised later, holds neither.  While a worker is at
\* the clock, a lock or the counter some worker can take such a step (no
\* deadlock), and a worker at a lock leaves that point only by acquiring
\* the lock.
locks_apart ==
    /\ [](\A c \in AllConns :
             /\ ~(rate_lock = c /\ counter_lock = c)
             /\ rate_lock = c <=> pc[c] = "rate_check"
             /\ counter_lock = c <=> (use_counter_lock /\ in_critical_section(c))
             /\ (pc[c] = "done" \/ raised(c)) => (rate_lock # c /\ counter_lock # c))
    /\ []((\E c \in AllConns : pc[c] \notin {"new", "done"} /\ ~waits_for_client(c)) =>
             ENABLED (\E c \in AllConns : Scheduled(c)))
    /\ [][\A c \in AllConns :
             /\ (pc[c] = "rate_lock" /\ pc'[c] # pc[c]) =>
                   (rate_lock = 0 /\ rate_lock' = c)
             /\ (pc[c] = "count" /\ use_counter_lock /\ pc'[c] # pc[c]) =>
                   (counter_lock = 0 /\ counter_lock' = c)]_vars

\* C39 as stated: the locks are never held together and always
\* released, there is no deadlock, and with every worker scheduled fairly a
\* worker that requests a lock acquires it and runs until its socket is
\* closed.
C39_LocksAndCompletion ==
    /\ locks_apart
    /\ \A c \in LiveConns : requests_lock(c) ~> (pc[c] = "done")

\* C39, amended: the locks are never held together and always released,
\* there is no deadlock, and with every worker scheduled fairly a worker
\* that requests a lock, among the connections accepted, acquires it,
\* releases it, and runs on to a step that reads or writes its socket (or
\* to its end), where it holds no lock.
C39_LocksReleased ==
    /\ locks_apart
    /\ [](\A c \in AllConns :
             waits_for_client(c) => (rate_lock # c /\ counter_lock # c))
    /\ \A c \in LiveConns :
          requests_lock(c) ~> (pc[c] = "done" \/ waits_for_client(c))

\* both locks are held at the same moment, by different workers: one is in
\* the counter delay of increment_counter, the other inside check_rate_limit
C39_Witness ==
    \E c, k \in AllConns :
        /\ c # k
        /\ counter_lock = c /\ pc[c] = "counter_sleep"
        /\ rate_lock = k /\ pc[k] = "rate_check"

\* the responses of connection c of which the socket took at least the
\* status line
written_responses(c) == SelectSeq(resp[c], LAMBDA r : r.sent # "none")

\* C40: at most one response is written on a connection: of the responses a
\* worker sends, at most one gets its status line onto the socket, and a 200
\* whose header block was sent is never followed by a written 500.
C40_OneResponsePerConnection ==
    \A c \in AllConns :
        /\ Len(written_responses(c)) <= 1
        /\ \A i \in 1..Len(resp[c]) : \A j \in (i + 1)..Len(resp[c]) :
              (resp[c][i].code = 200 /\ resp[c][i].sent # "none") =>
                  ~(resp[c][j].code = 500 /\ resp[c][j].sent # "none")

====
